---- MODULE Spec2Model ----
(***************************************************************************)
(* Command-intent resolution and presentation-state coordination core of   *)
(* the Keynote presentation bot: the state tracker (PresentationContext),  *)
(* the action validator, the dispatcher (handle_command,                   *)
(* handle_multiple_commands) and the Keynote capabilities they invoke.     *)
(*                                                                         *)
(* Confidences are integers in percent (0.85 is 85).  User-facing message  *)
(* texts are represented by short ASCII keys; the empty string stands for  *)
(* an empty message.                                                       *)
(***************************************************************************)
EXTENDS Integers, Sequences, FiniteSets, TLC

\* ------------------------------------------------------------------ bounds

\* intents in one multi-intent classification
MaxIntents == 2
\* successive speak_next_block calls followed on one slide
MaxSpeakCalls == 4
\* successive repeat_last_block calls followed after one speak_next_block
MaxRepeatCalls == 2

\* ----------------------------------------------------- PresentationState

NO_KEYNOTE == "no_keynote"
NO_PRESENTATION == "no_presentation"
READY == "ready"
PLAYING == "playing"
PAUSED == "paused"

PresentationState == {NO_KEYNOTE, NO_PRESENTATION, READY, PLAYING, PAUSED}

\* the closed action vocabulary
ActionName ==
  {"next_slide", "previous_slide", "pause", "resume", "start",
   "end_presentation", "status", "speak_next_block", "repeat_last_block",
   "handle_question", "search_web", "generate_summary", "goto_slide",
   "need_clarification", "unknown"}

\* ------------------------------------------------------------ the backend

\* the AppleScript programs the controller hands to osascript
Scripts ==
  {"exists_process", "activate", "exists_document", "show_next",
   "show_previous", "start", "stop", "playing", "pause", "resume",
   "status", "slide_text"}

\* the programs goto_slide and its helpers hand to osascript; "show_slide"
\* stands for "show slide K of document 1", one program per K
NavigationScripts == {"is_playing", "presentation_info", "show_slide"}

\* the name of the document the presenter opens
DocName == "deck"

\* the document: the text of each slide, one text item per line (a blank
\* line is "")
Deck == << <<"title1", "", "body1", "body2">>, <<"title2">> >>

NSlides == Len(Deck)

SlideLines(s) == IF s \in 1..NSlides THEN Deck[s] ELSE <<>>

\* Keynote: whether the process exists, whether document 1 exists, its name,
\* the slideshow (stopped, playing, paused), the current slide, and whether
\* the application reopens its last document when it is launched
NoDocument ==
  [running |-> TRUE, doc |-> FALSE, name |-> "", mode |-> "stopped", slide |-> 0,
   reopens |-> FALSE]
NotRunning == [NoDocument EXCEPT !.running = FALSE]
Opened == [NoDocument EXCEPT !.doc = TRUE, !.name = DocName, !.slide = 1]
Launched(kn) == IF kn.reopens THEN Opened ELSE NoDocument

\* a script result as osascript prints it, one field per use
NoOutput == [text |-> "", name |-> "", is_playing |-> FALSE, current_slide |-> 0,
             total_slides |-> 0, lines |-> <<>>]

Bool(b) == IF b THEN "true" ELSE "false"

\* whether Keynote carries the script out (osascript exits 0)
KeynoteAccepts(kn, script) ==
  CASE script = "exists_process" -> TRUE
    [] script = "activate" -> TRUE
    [] script = "exists_document" -> kn.running
    [] script = "status" -> kn.running
    [] script = "playing" -> kn.running
    [] script = "start" -> kn.running /\ kn.doc /\ kn.mode # "playing"
    [] script = "stop" -> kn.running /\ kn.doc
    [] script \in {"show_next", "show_previous"} -> kn.running /\ kn.doc
    [] script \in {"pause", "resume"} -> kn.running /\ kn.doc
    [] script = "slide_text" -> kn.running /\ kn.doc
    [] script = "is_playing" -> kn.running
    [] script = "presentation_info" -> kn.running
    [] OTHER -> FALSE

\* what the script returns on stdout
KeynoteResult(kn, script) ==
  CASE script = "exists_process" -> [NoOutput EXCEPT !.text = Bool(kn.running)]
    [] script = "exists_document" -> [NoOutput EXCEPT !.text = Bool(kn.doc)]
    [] script = "playing" ->
         [NoOutput EXCEPT !.text = IF kn.mode = "playing" THEN "playing" ELSE "paused"]
    [] script = "status" ->
         IF ~kn.doc THEN [NoOutput EXCEPT !.text = "no_document"]
         ELSE [NoOutput EXCEPT
                 !.text = "fields",
                 !.name = kn.name,
                 !.is_playing = (kn.mode = "playing"),
                 !.current_slide = IF kn.mode = "playing" THEN kn.slide ELSE 0,
                 !.total_slides = IF kn.mode = "playing" THEN NSlides ELSE 0]
    [] script = "slide_text" -> [NoOutput EXCEPT !.text = "lines", !.lines = SlideLines(kn.slide)]
    [] script = "is_playing" -> [NoOutput EXCEPT !.text = Bool(kn.mode = "playing")]
    [] script = "presentation_info" ->
         IF ~kn.doc THEN [NoOutput EXCEPT !.text = "{}"]
         ELSE [NoOutput EXCEPT
                 !.text = "json",
                 !.name = kn.name,
                 !.current_slide = kn.slide,
                 !.total_slides = NSlides]
    [] OTHER -> NoOutput

\* what the script does to Keynote
KeynoteEffect(kn, script) ==
  CASE script = "activate" -> IF kn.running THEN kn ELSE Launched(kn)
    [] script = "start" -> [kn EXCEPT !.mode = "playing"]
    [] script = "stop" -> [kn EXCEPT !.mode = "stopped"]
    [] script = "show_next" ->
         [kn EXCEPT !.slide = IF @ < NSlides THEN @ + 1 ELSE @]
    [] script = "show_previous" ->
         [kn EXCEPT !.slide = IF @ > 1 THEN @ - 1 ELSE @]
    [] script = "pause" ->
         [kn EXCEPT !.mode = IF @ = "playing" THEN "paused" ELSE @]
    [] script = "resume" ->
         [kn EXCEPT !.mode = IF @ = "paused" THEN "playing" ELSE @]
    [] OTHER -> kn

\* ------------------------------------------------------------ run_applescript

\* m is the machine a handler runs on: the tracker singleton (ctx), Keynote
\* (kn), the scripts that currently fail (faults), the refresh during which
\* the presenter closes the document (closeAt, 0 for none), the number of
\* refreshes so far (n) and the osascript invocations so far (calls).
Event(what, name, ok, text) == [kind |-> what, name |-> name, ok |-> ok, text |-> text]

Logged(m, script, ok, text) ==
  [m EXCEPT !.calls = Append(@, Event("script", script, ok, text))]

\* "r = await f(...)" followed by the code that uses r
Bind(r, Then(_)) == Then(r)

run_applescript(m, script) ==
  IF script \notin m.faults /\ KeynoteAccepts(m.kn, script)
  THEN [m |-> [Logged(m, script, TRUE, KeynoteResult(m.kn, script).text)
                 EXCEPT !.kn = KeynoteEffect(m.kn, script)],
        success |-> TRUE,
        result |-> KeynoteResult(m.kn, script)]
  ELSE [m |-> Logged(m, script, FALSE, "keynote_error"),
        success |-> FALSE,
        result |-> [NoOutput EXCEPT !.text = "keynote_error"]]

\* "return success and result.lower() == 'true'"
SaysTrue(r) == [m |-> r.m, ret |-> r.success /\ r.result.text = "true"]

is_keynote_running(m) == SaysTrue(run_applescript(m, "exists_process"))

ensure_keynote_running(m) ==
  Bind(is_keynote_running(m), LAMBDA r1 :
    IF r1.ret THEN r1
    ELSE Bind(run_applescript(r1.m, "activate"), LAMBDA r2 :
           IF r2.success THEN is_keynote_running(r2.m)
           ELSE [m |-> r2.m, ret |-> FALSE]))

is_presentation_active(m) == SaysTrue(run_applescript(m, "exists_document"))

\* -------------------------------------------------------- ExecutionResult

NoText == "<absent>"
NoData == [present |-> FALSE, document_name |-> "", is_playing |-> FALSE,
           current_slide |-> 0, total_slides |-> 0]

Result(ok, msg) ==
  [success |-> ok, message |-> msg, text_to_speak |-> NoText, data |-> NoData]

Returns(m, res) == [m |-> m, ret |-> res]

\* ------------------------------------------------------------ capabilities

\* next_slide and previous_slide differ in the script and the messages only
SlideStep(m, script, done, failed) ==
  Bind(ensure_keynote_running(m), LAMBDA r1 :
    IF ~r1.ret THEN Returns(r1.m, Result(FALSE, "keynote_cannot_be_started"))
    ELSE Bind(is_presentation_active(r1.m), LAMBDA r2 :
           IF ~r2.ret THEN Returns(r2.m, Result(FALSE, "no_active_presentation"))
           ELSE Bind(run_applescript(r2.m, script), LAMBDA r3 :
                  IF r3.success THEN Returns(r3.m, Result(TRUE, done))
                  ELSE Returns(r3.m, Result(FALSE, failed)))))

next_slide(m) == SlideStep(m, "show_next", "moved_to_next_slide", "next_slide_failed")

previous_slide(m) ==
  SlideStep(m, "show_previous", "moved_to_previous_slide", "previous_slide_failed")

start_presentation(m) ==
  Bind(ensure_keynote_running(m), LAMBDA r1 :
    IF ~r1.ret THEN Returns(r1.m, Result(FALSE, "keynote_cannot_be_started"))
    ELSE Bind(run_applescript(r1.m, "start"), LAMBDA r2 :
           IF r2.success THEN Returns(r2.m, Result(TRUE, "presentation_started"))
           ELSE Returns(r2.m, Result(FALSE, "start_failed"))))

end_presentation(m) ==
  Bind(is_keynote_running(m), LAMBDA r1 :
    IF ~r1.ret THEN Returns(r1.m, Result(FALSE, "keynote_not_running"))
    ELSE Bind(run_applescript(r1.m, "stop"), LAMBDA r2 :
           IF r2.success THEN Returns(r2.m, Result(TRUE, "presentation_stopped"))
           ELSE Returns(r2.m, Result(FALSE, "stop_failed"))))

\* the toggle: pause when the status query says "playing", resume otherwise
Toggle(m, script, done) ==
  Bind(run_applescript(m, script), LAMBDA r3 :
    IF r3.success THEN Returns(r3.m, Result(TRUE, done))
    ELSE Returns(r3.m, Result(FALSE, "status_change_failed")))

pause_presentation(m) ==
  Bind(is_keynote_running(m), LAMBDA r1 :
    IF ~r1.ret THEN Returns(r1.m, Result(FALSE, "keynote_not_running"))
    ELSE Bind(run_applescript(r1.m, "playing"), LAMBDA r2 :
           IF ~r2.success THEN Returns(r2.m, Result(FALSE, "cannot_tell_status"))
           ELSE IF r2.result.text = "playing"
           THEN Toggle(r2.m, "pause", "presentation_paused")
           ELSE Toggle(r2.m, "resume", "presentation_resumed")))

\* result.split("|") gives the four fields unless the name itself holds a "|"
StatusLineParses(out) == out.name = DocName

get_presentation_status(m) ==
  Bind(is_keynote_running(m), LAMBDA r1 :
    IF ~r1.ret THEN Returns(r1.m, Result(FALSE, "keynote_not_running"))
    ELSE Bind(run_applescript(r1.m, "status"), LAMBDA r2 :
           IF ~r2.success THEN Returns(r2.m, Result(FALSE, "status_query_failed"))
           ELSE IF r2.result.text = "no_document"
           THEN Returns(r2.m, Result(TRUE, "no_open_presentations"))
           ELSE IF StatusLineParses(r2.result)
           THEN Returns(r2.m,
                  [Result(TRUE, "status_text") EXCEPT
                     !.data = [present |-> TRUE,
                               document_name |-> r2.result.name,
                               is_playing |-> r2.result.is_playing,
                               current_slide |-> r2.result.current_slide,
                               total_slides |-> r2.result.total_slides]])
           ELSE Returns(r2.m, Result(FALSE, "status_parse_failed"))))

SlideText(m, ok, lines, msg) == [m |-> m, success |-> ok, lines |-> lines, message |-> msg]

get_current_slide_text(m) ==
  Bind(is_keynote_running(m), LAMBDA r1 :
    IF ~r1.ret THEN SlideText(r1.m, FALSE, <<>>, "keynote_not_running")
    ELSE Bind(is_presentation_active(r1.m), LAMBDA r2 :
           IF ~r2.ret THEN SlideText(r2.m, FALSE, <<>>, "no_active_presentation")
           ELSE Bind(run_applescript(r2.m, "slide_text"), LAMBDA r3 :
                  IF r3.success THEN SlideText(r3.m, TRUE, r3.result.lines, "")
                  ELSE SlideText(r3.m, FALSE, <<>>, "slide_text_failed"))))

\* the lines of a slide text that are not blank
Paragraphs(lines) == SelectSeq(lines, LAMBDA p : p # "")

speak_next_block(m) ==
  Bind(get_current_slide_text(m), LAMBDA r :
    IF ~r.success THEN Returns(r.m, Result(FALSE, r.message))
    ELSE IF Paragraphs(r.lines) = <<>> THEN Returns(r.m, Result(FALSE, "no_text_on_slide"))
    ELSE Returns(r.m, [Result(TRUE, "speaking_title") EXCEPT
                         !.text_to_speak = Paragraphs(r.lines)[1]]))

repeat_last_block(m) ==
  IF m.last_spoken_text = NoText THEN speak_next_block(m)
  ELSE Returns(m, [Result(TRUE, "repeating") EXCEPT !.text_to_speak = m.last_spoken_text])

\* the dictionary json.loads makes of the script's answer; {} (known FALSE)
\* when the script fails or there is no document
Info(r) ==
  [m |-> r.m,
   known |-> r.success /\ r.result.text = "json",
   slideCount |-> IF r.success /\ r.result.text = "json" THEN r.result.total_slides ELSE 0]

\* _get_current_presentation_info
get_current_presentation_info(m) == Info(run_applescript(m, "presentation_info"))

\* the knowledge services (search, completion) answer, fail or raise: m.service
search_web(m) ==
  IF m.service = "ok"
  THEN Returns(m, [Result(TRUE, "search_results") EXCEPT !.text_to_speak = "search_content"])
  ELSE IF m.service = "failed" THEN Returns(m, Result(FALSE, "search_failed"))
  ELSE Returns(m, Result(FALSE, "search_exception"))

handle_question(m) ==
  IF m.service = "ok"
  THEN Returns(m, [Result(TRUE, "formatted_answer") EXCEPT !.text_to_speak = "answer"])
  ELSE IF m.service = "failed" THEN Returns(m, Result(FALSE, "cannot_answer"))
  ELSE Returns(m, Result(FALSE, "question_exception"))

generate_summary(m) ==
  Bind(is_keynote_running(m), LAMBDA r1 :
    IF ~r1.ret THEN Returns(r1.m, Result(FALSE, "keynote_not_running"))
    ELSE Bind(is_presentation_active(r1.m), LAMBDA r2 :
           IF ~r2.ret THEN Returns(r2.m, Result(FALSE, "no_active_presentation"))
           ELSE Bind(get_current_slide_text(get_current_presentation_info(r2.m).m),
                     LAMBDA r3 :
                  IF m.service = "ok"
                  THEN Returns(r3.m, [Result(TRUE, "summary_report") EXCEPT
                                        !.text_to_speak = "summary"])
                  ELSE Returns(r3.m, Result(FALSE, "summary_exception")))))

\* "show slide K of document 1": Keynote refuses a slide it does not have
show_slide(m, slide_number) ==
  IF /\ "show_slide" \notin m.faults
     /\ m.kn.running /\ m.kn.doc /\ slide_number \in 1..NSlides
  THEN [m |-> [Logged(m, "show_slide", TRUE, "") EXCEPT !.kn.slide = slide_number],
        success |-> TRUE,
        result |-> NoOutput]
  ELSE [m |-> Logged(m, "show_slide", FALSE, "keynote_error"),
        success |-> FALSE,
        result |-> [NoOutput EXCEPT !.text = "keynote_error"]]

is_presentation_playing(m) ==
  Bind(is_keynote_running(m), LAMBDA r1 :
    IF ~r1.ret THEN r1 ELSE SaysTrue(run_applescript(r1.m, "is_playing")))

\* lines 775-791: the slide exists, so Keynote is told to show it
ShowExisting(m, slide_number) ==
  Bind(show_slide(m, slide_number), LAMBDA r :
    IF r.success THEN Returns(r.m, Result(TRUE, "moved_to_slide_n"))
    ELSE Returns(r.m, Result(FALSE, "goto_slide_failed")))

\* a goto_slide_by_number that leaves the answer to Keynote
goto_slide_by_number_Unchecked(m, slide_number) ==
  Bind(get_current_presentation_info(m), LAMBDA info :
    IF ~info.known THEN Returns(info.m, Result(FALSE, "no_presentation_info"))
    ELSE ShowExisting(info.m, slide_number))

goto_slide_by_number(m, slide_number) ==
  Bind(get_current_presentation_info(m), LAMBDA info :
    IF ~info.known THEN Returns(info.m, Result(FALSE, "no_presentation_info"))
    ELSE IF slide_number < 1 \/ slide_number > info.slideCount
    THEN Returns(info.m, Result(FALSE, "slide_does_not_exist"))
    ELSE ShowExisting(info.m, slide_number))

\* lines 736-742: the slideshow is started first when it is not playing
StartedIfNeeded(m) ==
  Bind(is_presentation_playing(m), LAMBDA playing :
    IF playing.ret THEN Returns(playing.m, Result(TRUE, ""))
    ELSE start_presentation(playing.m))

\* goto_slide(slide_number=K)
goto_slide(m, slide_number) ==
  Bind(ensure_keynote_running(m), LAMBDA r1 :
    IF ~r1.ret THEN Returns(r1.m, Result(FALSE, "keynote_cannot_be_started"))
    ELSE Bind(is_presentation_active(r1.m), LAMBDA r2 :
           IF ~r2.ret THEN Returns(r2.m, Result(FALSE, "no_active_presentation"))
           ELSE Bind(StartedIfNeeded(r2.m), LAMBDA started :
                  IF ~started.ret.success THEN started
                  ELSE goto_slide_by_number(started.m, slide_number))))

\* ------------------------------------------------------ PresentationContext

\* the singleton as __new__ builds it
NewContext ==
  [state |-> NO_KEYNOTE, current_slide |-> 0, total_slides |-> 0, presentation_name |-> "<None>"]

\* the presenter closes the document while this refresh is between two queries
DocumentClosesNow(m) ==
  IF m.closeAt = m.n /\ m.kn.doc
  THEN [m EXCEPT !.kn = NoDocument]
  ELSE m

SetState(m, st) == [m EXCEPT !.ctx.state = st]

\* lines 39-50: what update_state makes of the status it got
Apply(m, status) ==
  IF status.success
  THEN IF status.data.present
       THEN [m EXCEPT
               !.ctx.current_slide = status.data.current_slide,
               !.ctx.total_slides = status.data.total_slides,
               !.ctx.presentation_name = status.data.document_name,
               !.ctx.state = IF status.data.is_playing THEN PLAYING ELSE PAUSED]
       ELSE SetState(m, READY)
  ELSE m

\* a refresh that puts all three queries before looking at any answer
Refresh_AllQueriesFirst(m) ==
  Bind(is_keynote_running(m), LAMBDA r1 :
    Bind(is_presentation_active(r1.m), LAMBDA r2 :
      Bind(get_presentation_status(DocumentClosesNow(r2.m)), LAMBDA r3 :
        IF ~r1.ret THEN SetState(r3.m, NO_KEYNOTE)
        ELSE IF ~r2.ret THEN SetState(r3.m, NO_PRESENTATION)
        ELSE Apply(r3.m, r3.ret))))

\* lines 28-50: the queries in their order
Refresh(m) ==
  Bind(is_keynote_running(m), LAMBDA r1 :
    IF ~r1.ret THEN SetState(r1.m, NO_KEYNOTE)
    ELSE Bind(is_presentation_active(r1.m), LAMBDA r2 :
           IF ~r2.ret THEN SetState(r2.m, NO_PRESENTATION)
           ELSE Bind(get_presentation_status(DocumentClosesNow(r2.m)), LAMBDA r3 :
                  Apply(r3.m, r3.ret))))

NoteState(m) == [m EXCEPT !.calls = Append(@, Event("state", m.ctx.state, TRUE, ""))]

\* update_state, its start and the state it leaves in the tracker noted in the log
update_state(m) ==
  NoteState(Refresh([m EXCEPT !.n = @ + 1,
                              !.calls = Append(@, Event("update_state", "", TRUE, ""))]))

get_status_message(ctx) ==
  CASE ctx.state = NO_KEYNOTE -> "keynote_not_running_will_start"
    [] ctx.state = NO_PRESENTATION -> "no_open_presentation"
    [] ctx.state = READY -> "presentation_ready"
    [] ctx.state = PLAYING -> "presentation_playing_slide_n_of_m"
    [] ctx.state = PAUSED -> "presentation_paused_slide_n_of_m"

valid_actions(st) ==
  CASE st = NO_KEYNOTE -> {"start"}
    [] st = NO_PRESENTATION -> {"status"}
    [] st = READY -> {"start", "status", "next_slide", "previous_slide", "goto_slide"}
    [] st = PLAYING -> {"next_slide", "previous_slide", "pause", "end_presentation",
                        "status", "goto_slide", "speak_next_block", "repeat_last_block"}
    [] st = PAUSED -> {"resume", "next_slide", "previous_slide", "end_presentation",
                       "status", "goto_slide"}
    [] OTHER -> {}

\* hints with nothing to say while the slideshow plays
messages_SilentWhilePlaying(st) ==
  CASE st = NO_KEYNOTE -> "start_keynote_first"
    [] st = NO_PRESENTATION -> "open_a_presentation_first"
    [] st = READY -> "presentation_not_started_say_start"
    [] st = PLAYING -> ""
    [] st = PAUSED -> "paused_say_continue"
    [] OTHER -> "not_available_now"

messages(st) ==
  CASE st = NO_KEYNOTE -> "start_keynote_first"
    [] st = NO_PRESENTATION -> "open_a_presentation_first"
    [] st = READY -> "presentation_not_started_say_start"
    [] st = PLAYING -> "not_available_while_playing"
    [] st = PAUSED -> "paused_say_continue"
    [] OTHER -> "not_available_now"

NoMessage == "<None>"

\* lines 77-95: the verdict on the state the refresh left
Verdict(m, action) ==
  IF action \in valid_actions(m.ctx.state)
  THEN [m |-> m, valid |-> TRUE, message |-> NoMessage]
  ELSE [m |-> m, valid |-> FALSE, message |-> messages(m.ctx.state)]

\* a validator that refreshes but judges by the state it had before
validate_action_OnStaleState(m, action) ==
  [Verdict(m, action) EXCEPT !.m = update_state(m)]

validate_action(m, action) == Verdict(update_state(m), action)

\* ---------------------------------------------------------- the dispatcher

COMMAND_FUNCTIONS ==
  {"next_slide", "previous_slide", "pause", "resume", "start", "end_presentation",
   "status", "speak_next_block", "repeat_last_block", "handle_question",
   "search_web", "generate_summary"}

\* fn(**supported_params) for fn = COMMAND_FUNCTIONS[action]
Invoke(m, action) ==
  CASE action = "next_slide" -> next_slide(m)
    [] action = "previous_slide" -> previous_slide(m)
    [] action = "pause" -> pause_presentation(m)
    [] action = "resume" -> pause_presentation(m)
    [] action = "start" -> start_presentation(m)
    [] action = "end_presentation" -> end_presentation(m)
    [] action = "status" -> get_presentation_status(m)
    [] action = "speak_next_block" -> speak_next_block(m)
    [] action = "repeat_last_block" -> repeat_last_block(m)
    [] action = "handle_question" -> handle_question(m)
    [] action = "search_web" -> search_web(m)
    [] action = "generate_summary" -> generate_summary(m)

\* an exception leaving a block: no result, and the caller does not go on
Raises(m) == [m |-> m, ret |-> Result(FALSE, ""), raised |-> TRUE]

Done(m, res) == [m |-> m, ret |-> res, raised |-> FALSE]

\* a dispatch block without the except clause
ExceptClause_Propagates(m, action) == Raises(m)

\* the except clause of the dispatch block: the exception becomes a result
ExceptClause(m, action) == Done(m, Result(FALSE, "execution_error"))

\* "execution_result = await fn(...)" has returned: noted in the log
Returned(r, action) ==
  [r EXCEPT !.m.calls = Append(@, Event("return", action, r.ret.success, ""))]

\* a dispatch block that returns the result without refreshing the tracker
RefreshOnSuccess_Never(r) == Done(r.m, r.ret)

\* "if execution_result.get('success', False): await context.update_state()"
RefreshOnSuccess(r) ==
  IF r.ret.success THEN Done(update_state(r.m), r.ret) ELSE Done(r.m, r.ret)

\* what the message text holds besides the command: a number of slides
\* ("3 слайда") and a speed word ("slower")
PlainText == [slide_count |-> FALSE, rate |-> FALSE]
Texts == {PlainText, [slide_count |-> TRUE, rate |-> TRUE]}

\* the names of the parameters extract_parameters finds in the text
extract_parameters(text, action) ==
  CASE action = "handle_question" -> {"question"}
    [] action = "search_web" -> {"query"}
    [] action \in {"next_slide", "previous_slide"} ->
         IF text.slide_count THEN {"slide_count"} ELSE {}
    [] action \in {"speak_next_block", "repeat_last_block"} ->
         IF text.rate THEN {"rate"} ELSE {}
    [] OTHER -> {}

\* inspect.signature(fn).parameters of the registered capabilities
Signature(action) ==
  CASE action = "speak_next_block" -> {"rate"}
    [] action = "handle_question" -> {"question"}
    [] action = "search_web" -> {"query"}
    [] OTHER -> {}

\* the parameters of the signature that have no default
Required(action) ==
  CASE action = "handle_question" -> {"question"}
    [] action = "search_web" -> {"query"}
    [] OTHER -> {}

\* a filter that lets every extracted parameter through
supported_params_Unfiltered(params, action) == params

\* "for param_name in sig.parameters: if param_name in params: ..."
supported_params(params, action) == {name \in Signature(action) : name \in params}

\* Python binds the keyword arguments: TypeError on an unexpected or a
\* missing one
Binds(action, kwargs) ==
  kwargs \subseteq Signature(action) /\ Required(action) \subseteq kwargs

\* a set of at most one name as the log shows it
Key(names) == IF names = {} THEN "" ELSE CHOOSE name \in names : TRUE

\* the call inside the try block; m.raisesAt is the capability call of this
\* turn that raises (0: none does)
TryInvoke(m, action) ==
  IF m.raisesAt = m.invoked \/ ~Binds(action, m.kwargs)
  THEN ExceptClause([m EXCEPT !.calls = Append(@, Event("raise", action, FALSE, ""))],
                    action)
  ELSE RefreshOnSuccess(Returned(Invoke(m, action), action))

\* "Неизвестная команда: {action}"
UnknownCommand(action) ==
  CASE action = "goto_slide" -> "unknown_command: goto_slide"
    [] action = "need_clarification" -> "unknown_command: need_clarification"
    [] action = "unknown" -> "unknown_command: unknown"
    [] OTHER -> "unknown_command"

\* "params = await extract_parameters(text, action)", noted in the log
Extracted(m, action) ==
  [m EXCEPT !.calls = Append(@, Event("extract", action, TRUE,
                                      Key(extract_parameters(m.text, action))))]

\* the try block entered: the keyword arguments are made and the call noted
Called(m, action) ==
  [m EXCEPT !.invoked = @ + 1,
            !.kwargs = supported_params(extract_parameters(m.text, action), action),
            !.calls = Append(@, Event("invoke", action, TRUE,
                                      Key(supported_params(
                                            extract_parameters(m.text, action), action))))]

\* a dispatch that refreshes the tracker after an unregistered action too
Dispatch_RefreshesAfterUnknown(m, action) ==
  IF action \in COMMAND_FUNCTIONS
  THEN TryInvoke(Called(m, action), action)
  ELSE Done(update_state(m), Result(FALSE, UnknownCommand(action)))

\* "if action in COMMAND_FUNCTIONS: try ... else ..."
Dispatch(m, action) ==
  IF action \in COMMAND_FUNCTIONS
  THEN TryInvoke(Called(m, action), action)
  ELSE Done(m, Result(FALSE, UnknownCommand(action)))

\* what both handlers do with a validated action: the parameters, the call,
\* the refresh on success, the except clause, the branch for an unregistered
\* action
Execute(m, action) == Dispatch(Extracted(m, action), action)

\* what a handler hands back to its caller
NoResult == Result(FALSE, "")

TurnResult(shape, action, confidence, message, has, res, actions) ==
  [shape |-> shape, action |-> action, confidence |-> confidence, message |-> message,
   has_execution_result |-> has, execution_result |-> res, actions |-> actions]

Raised == TurnResult("raised", "", 0, "", FALSE, NoResult, <<>>)

\* a test that lets every intent through
Skipped_Never(action_data) == FALSE

\* a test that looks at the confidence alone
Skipped_OnlyLowConfidence(action_data) == action_data.confidence < 50

\* "confidence < 0.5 or action == 'unknown' or action == 'need_clarification'"
Skipped(action_data) ==
  \/ action_data.confidence < 50
  \/ action_data.action = "unknown"
  \/ action_data.action = "need_clarification"

Executed(action_data, res) ==
  [action |-> action_data.action, confidence |-> action_data.confidence,
   execution_result |-> res]

RECURSIVE ForEachAction(_, _, _)
RECURSIVE ExecuteAll(_, _, _)

\* the intents executed one after the other with no validation in between
ExecuteAll(m, actions, results) ==
  IF actions = <<>> THEN [m |-> m, results |-> results, raised |-> FALSE]
  ELSE Bind(Execute(m, Head(actions).action), LAMBDA e :
         ExecuteAll(e.m, Tail(actions), Append(results, Executed(Head(actions), e.ret))))

\* a loop that judges every intent by the state the turn began in
ForEachAction_JudgedAtEntry(m, actions, results) ==
  ExecuteAll(m,
             SelectSeq(actions, LAMBDA a : ~Skipped(a) /\ a.action \in valid_actions(m.ctx.state)),
             results)

\* a loop that gives up at the first intent that does not succeed
ForEachAction_AbortsOnFailure(m, actions, results) ==
  IF actions = <<>> THEN [m |-> m, results |-> results, raised |-> FALSE]
  ELSE IF Skipped(Head(actions)) THEN ForEachAction(m, Tail(actions), results)
  ELSE Bind(validate_action(m, Head(actions).action), LAMBDA validation :
         IF ~validation.valid THEN ForEachAction(validation.m, Tail(actions), results)
         ELSE Bind(Execute(validation.m, Head(actions).action), LAMBDA e :
                IF ~e.ret.success
                THEN [m |-> e.m, results |-> Append(results, Executed(Head(actions), e.ret)),
                      raised |-> FALSE]
                ELSE ForEachAction(e.m, Tail(actions),
                                   Append(results, Executed(Head(actions), e.ret)))))

\* the loop of handle_multiple_commands over the intents left
ForEachAction(m, actions, results) ==
  IF actions = <<>> THEN [m |-> m, results |-> results, raised |-> FALSE]
  ELSE IF Skipped(Head(actions)) THEN ForEachAction(m, Tail(actions), results)
  ELSE Bind(validate_action(m, Head(actions).action), LAMBDA validation :
         IF ~validation.valid THEN ForEachAction(validation.m, Tail(actions), results)
         ELSE Bind(Execute(validation.m, Head(actions).action), LAMBDA e :
                IF e.raised THEN [m |-> e.m, results |-> results, raised |-> TRUE]
                ELSE ForEachAction(e.m, Tail(actions),
                                   Append(results, Executed(Head(actions), e.ret)))))

handle_multiple_commands(m, actions) ==
  Bind(ForEachAction(m, actions, <<>>), LAMBDA r :
    IF r.raised THEN [m |-> r.m, out |-> Raised]
    ELSE [m |-> r.m,
          out |-> TurnResult("multiple_actions", "", 0, "", FALSE, NoResult, r.results)])

\* the classifier's answer: None, one intent, or a list of intents
None == [shape |-> "none", action |-> "", confidence |-> 0, actions |-> <<>>]
Single(a, c) == [shape |-> "single", action |-> a, confidence |-> c, actions |-> <<>>]
Multiple(as) == [shape |-> "multiple", action |-> "", confidence |-> 0, actions |-> as]

\* a handler that calls the capability whatever the validator said
HandleSingle_WithoutValidation(m, result) ==
  Bind(validate_action(m, result.action), LAMBDA validation :
    Bind(Execute(validation.m, result.action), LAMBDA e :
      IF e.raised THEN [m |-> e.m, out |-> Raised]
      ELSE [m |-> e.m,
            out |-> TurnResult("single", result.action, result.confidence, "", TRUE,
                               e.ret, <<>>)]))

\* lines 508-564: validation and dispatch of the one intent
HandleSingle(m, result) ==
  Bind(validate_action(m, result.action), LAMBDA validation :
    IF ~validation.valid
    THEN [m |-> validation.m,
          out |-> TurnResult("single", result.action, result.confidence, "", TRUE,
                             Result(FALSE, validation.message), <<>>)]
    ELSE Bind(Execute(validation.m, result.action), LAMBDA e :
           IF e.raised THEN [m |-> e.m, out |-> Raised]
           ELSE [m |-> e.m,
                 out |-> TurnResult("single", result.action, result.confidence, "", TRUE,
                                    e.ret, <<>>)]))

\* lines 484-564, on the tracker as the refresh of line 479 left it.  With
\* result None the membership test of line 485 raises TypeError.
Route(m, result) ==
  IF result.shape = "none" THEN [m |-> m, out |-> Raised]
  ELSE IF result.shape = "multiple" THEN handle_multiple_commands(m, result.actions)
  ELSE IF Skipped(result)
  THEN [m |-> m,
        out |-> TurnResult("need_clarification", "need_clarification", result.confidence,
                           get_status_message(m.ctx), FALSE, NoResult, <<>>)]
  ELSE HandleSingle(m, result)

handle_command(m, result) == Route(update_state(m), result)

\* how many intents a classification carries
Intents(result) ==
  IF result.shape = "single" THEN 1 ELSE Len(result.actions)

\* identify_action as written: it builds its prompt and ends without a return
identify_action(current_state) == None

\* ------------------------------------------------------------------ state

VARIABLES
  keynote,            \* the Keynote application: running, document, slideshow
  context,            \* PresentationContext._instance
  last_spoken_text,   \* keynote_controller._last_spoken_text
  turn,               \* the operation just carried out and what it returned
  spoken,             \* what the successive speak_next_block calls on the
                      \* current slide gave to speak, oldest first
  repeated,           \* what the repeat_last_block calls since the last
                      \* speak_next_block gave to speak, oldest first
  sessions,           \* user_session._user_sessions
  tasks,              \* the message handlers the dispatcher has running
  sent,               \* what each of them has sent to its chat so far
  journal,            \* the session accesses of the handlers, in their order
  call,               \* one osascript call: the runner and where it stands
  classify,           \* one classification: the input and what came back
  flow,               \* command_stages.COMMAND_FLOWS and the last stage run
  cache               \* caching.PRESENTATION_CACHE, the clock and the readers

\* what the message handlers work on
handling == <<sessions, tasks, sent, journal>>

vars == <<keynote, context, last_spoken_text, turn, spoken, repeated,
          sessions, tasks, sent, journal, call, classify, flow, cache>>

\* confidences a classification can carry: none, below the 0.5 threshold,
\* in the middle band, and a recognised intent's
Confidences == {0, 40, 60, 85}

\* the intents of a multi-intent classification
IntentChoices ==
  {[action |-> a, confidence |-> 85] :
      a \in {"start", "next_slide", "speak_next_block", "goto_slide",
             "need_clarification"}}
  \cup {[action |-> "unknown", confidence |-> 0], [action |-> "next_slide", confidence |-> 40]}

IntentLists == UNION {[1..k -> IntentChoices] : k \in 1..MaxIntents}

\* every answer the classifier call in handle_command can come back with
Classifications ==
  {identify_action(s) : s \in PresentationState}
  \cup {Single(a, c) : a \in ActionName, c \in Confidences}
  \cup {Multiple(as) : as \in IntentLists}

\* what can go wrong while one operation runs, one thing at a time: a script
\* osascript fails on, the presenter closing the document during the
\* closeAt-th refresh, the raisesAt-th capability call raising
Calm == [fault |-> "none", closeAt |-> 0, raisesAt |-> 0]

Anomalies(refreshes, calls) ==
  {Calm}
  \cup {[Calm EXCEPT !.fault = s] : s \in Scripts}
  \cup {[Calm EXCEPT !.closeAt = c] : c \in 1..refreshes}
  \cup {[Calm EXCEPT !.raisesAt = i] : i \in 1..calls}

Idle ==
  [op |-> "idle", classified |-> None, action |-> "", before |-> NewContext,
   keynote_before |-> NotRunning, anomaly |-> Calm, out |-> Raised, valid |-> FALSE,
   message |-> "", calls |-> <<>>, slide_number |-> 0, text |-> PlainText,
   content_text |-> "", coercion |-> ""]

Machine(anomaly) ==
  [ctx |-> context, kn |-> keynote,
   faults |-> IF anomaly.fault = "none" THEN {} ELSE {anomaly.fault},
   closeAt |-> anomaly.closeAt, n |-> 0, calls |-> <<>>, invoked |-> 0,
   raisesAt |-> anomaly.raisesAt, service |-> "ok",
   text |-> PlainText, kwargs |-> {},
   last_spoken_text |-> last_spoken_text]

\* the users that write to the bot
Users == {"ann", "bob"}

\* the messages the dispatcher has handlers running for at one time
MaxInFlight == 2
Messages == 1..MaxInFlight

\* message.text
MessageText == "text"

\* the session get_user_session makes on first contact
NewSession ==
  [awaiting_clarification |-> FALSE, last_action |-> "<None>", last_message |-> "<None>"]

\* _user_sessions = {}
NoSessions == [u \in {} |-> NewSession]

\* a handler: the message it is for (text or voice, from which user), where
\* it stands, what line 252 read, what handle_command returned, whether an
\* exception left the handler, what became of the recording of a voice
\* message and the text made of it
NoTask ==
  [kind |-> "none", user |-> "", pc |-> "none", awaited |-> FALSE, out |-> Raised,
   error |-> FALSE, recognition |-> "", heard |-> ""]

\* no osascript call under way: the runner, where it stands, the attempt of
\* its loop, the processes launched, the process of this attempt, how the
\* attempts ended, and the pair returned
NoCall ==
  [runner |-> "none", pc |-> "idle", attempt |-> 0, launches |-> 0, proc |-> "none",
   outcomes |-> <<>>, success |-> FALSE, text |-> ""]

\* no classification made: the function, what the model calls came back
\* with, the models asked, and the result
NoReply == [kind |-> "none", pieces |-> <<>>]

NoClassification ==
  [fn |-> "none", primary |-> NoReply, fallback |-> NoReply, words |-> <<>>,
   requests |-> <<>>, result |-> None, raised |-> FALSE]

\* how many stages a flow is given here, and how many readers of the
\* presentation structure run side by side
MaxStage == 2
MaxReaders == 2

\* the clock of the cache readers: seconds a step of time takes, and the
\* time after which the clock is no longer advanced
TickSeconds == 15
MaxClock == 75

Stages == 0..MaxStage
Readers == 1..MaxReaders

\* no stage has been run
NoStage ==
  [ran |-> FALSE, command |-> "", stage |-> 0, registered |-> FALSE,
   handler |-> [kind |-> "none"], result |-> [success |-> FALSE],
   raised |-> FALSE]

\* COMMAND_FLOWS = {} and nothing run
NoFlows == [COMMAND_FLOWS |-> <<>>, last |-> NoStage]

\* the module-level cache of the presentation structure
PRESENTATION_CACHE == [data |-> "None", timestamp |-> 0, ttl |-> 30]

NoReader ==
  [pc |-> "idle", current_time |-> 0, seen |-> PRESENTATION_CACHE,
   queried |-> FALSE, data |-> "", before |-> PRESENTATION_CACHE,
   after |-> PRESENTATION_CACHE, returned |-> ""]

EmptyCache ==
  [store |-> PRESENTATION_CACHE, time |-> 0,
   readers |-> [i \in Readers |-> NoReader]]

Init ==
  /\ keynote = NotRunning
  /\ context = NewContext
  /\ last_spoken_text = NoText
  /\ turn = Idle
  /\ spoken = <<>>
  /\ repeated = <<>>
  /\ sessions = NoSessions
  /\ tasks = [i \in Messages |-> NoTask]
  /\ sent = [i \in Messages |-> <<>>]
  /\ journal = <<>>
  /\ call = NoCall
  /\ classify = NoClassification
  /\ flow = NoFlows
  /\ cache = EmptyCache

\* ------------------------------------------------------- the environment

Launch ==
  /\ turn.op = "idle" /\ ~keynote.running
  /\ keynote' = Launched(keynote)
  /\ spoken' = <<>> /\ repeated' = <<>>
  /\ UNCHANGED <<context, last_spoken_text, turn>>
  /\ UNCHANGED <<handling, call, classify, flow, cache>>

Quit ==
  /\ turn.op = "idle" /\ keynote.running
  /\ \E reopens \in {FALSE, keynote.doc} :
       keynote' = [NotRunning EXCEPT !.reopens = reopens]
  /\ spoken' = <<>> /\ repeated' = <<>>
  /\ UNCHANGED <<context, last_spoken_text, turn>>
  /\ UNCHANGED <<handling, call, classify, flow, cache>>

OpenDocument ==
  /\ turn.op = "idle" /\ keynote.running /\ ~keynote.doc
  /\ keynote' = Opened
  /\ spoken' = <<>> /\ repeated' = <<>>
  /\ UNCHANGED <<context, last_spoken_text, turn>>
  /\ UNCHANGED <<handling, call, classify, flow, cache>>

CloseDocument ==
  /\ turn.op = "idle" /\ keynote.doc
  /\ keynote' = NoDocument
  /\ spoken' = <<>> /\ repeated' = <<>>
  /\ UNCHANGED <<context, last_spoken_text, turn>>
  /\ UNCHANGED <<handling, call, classify, flow, cache>>

\* ------------------------------------------------------------ operations

Began(op, anomaly) ==
  [Idle EXCEPT !.op = op, !.before = context, !.keynote_before = keynote,
               !.anomaly = anomaly]

Commit(m) ==
  /\ keynote' = m.kn
  /\ context' = m.ctx
  /\ last_spoken_text' = m.last_spoken_text

Ran(op, anomaly, action, res, m) ==
  [Began(op, anomaly) EXCEPT
     !.action = action,
     !.out = TurnResult("single", action, 0, "", TRUE, res, <<>>),
     !.calls = m.calls]

\* the actions a classification names
ActionsOf(result) ==
  IF result.shape = "single" THEN {result.action}
  ELSE {result.actions[i].action : i \in DOMAIN result.actions}

\* the texts a turn is followed with: the extra words are varied where they
\* are looked for (the four capabilities extract_parameters reads them for)
\* and in turns in which no backend query goes wrong
TextsOf(result, anomaly) ==
  IF /\ anomaly.fault = "none" /\ anomaly.closeAt = 0
     /\ ActionsOf(result) \cap {"next_slide", "previous_slide", "speak_next_block",
                                "repeat_last_block"} # {}
  THEN Texts
  ELSE {PlainText}

\* a message arrives and handle_command(text) runs to its end
HandleCommand ==
  /\ turn.op = "idle"
  /\ \E result \in Classifications :
       \E anomaly \in Anomalies(3, Intents(result)) : \E text \in TextsOf(result, anomaly) :
         LET r == handle_command([Machine(anomaly) EXCEPT !.text = text], result)
         IN /\ Commit(r.m)
            /\ turn' = [Began("handle_command", anomaly) EXCEPT
                          !.classified = result, !.out = r.out, !.calls = r.m.calls,
                          !.text = text]
            /\ spoken' = <<>> /\ repeated' = <<>>
  /\ UNCHANGED <<handling, call, classify, flow, cache>>

\* PresentationContext().update_state() on its own
UpdateState ==
  /\ turn.op = "idle"
  /\ \E anomaly \in Anomalies(1, 0) :
       LET m == update_state(Machine(anomaly))
       IN /\ Commit(m)
          /\ turn' = [Began("update_state", anomaly) EXCEPT !.calls = m.calls]
          /\ spoken' = <<>> /\ repeated' = <<>>
  /\ UNCHANGED <<handling, call, classify, flow, cache>>

\* PresentationContext().validate_action(action) on its own
ValidateAction ==
  /\ turn.op = "idle"
  /\ \E action \in ActionName, anomaly \in Anomalies(1, 0) :
       LET v == validate_action(Machine(anomaly), action)
       IN /\ Commit(v.m)
          /\ turn' = [Began("validate_action", anomaly) EXCEPT
                        !.action = action, !.valid = v.valid, !.message = v.message,
                        !.calls = v.m.calls]
          /\ spoken' = <<>> /\ repeated' = <<>>
  /\ UNCHANGED <<handling, call, classify, flow, cache>>

\* the reply is sent; the next message can be handled
Respond ==
  /\ turn.op # "idle"
  /\ turn' = Idle
  /\ UNCHANGED <<keynote, context, last_spoken_text, spoken, repeated>>
  /\ UNCHANGED <<handling, call, classify, flow, cache>>

Next ==
  \/ Launch \/ Quit \/ OpenDocument \/ CloseDocument
  \/ HandleCommand \/ UpdateState \/ ValidateAction
  \/ Respond

Spec == Init /\ [][Next]_vars

\* ------------------------------------------- the capabilities on their own

\* keynote_controller.speak_next_block() once more on the slide shown
SpeakNextBlock ==
  /\ turn.op = "idle" /\ Len(spoken) < MaxSpeakCalls
  /\ \E anomaly \in Anomalies(0, 0) :
       LET r == speak_next_block(Machine(anomaly))
       IN /\ Commit(r.m)
          /\ turn' = Ran("speak_next_block", anomaly, "speak_next_block", r.ret, r.m)
          /\ spoken' = IF r.ret.success THEN Append(spoken, r.ret.text_to_speak)
                       ELSE spoken
          /\ repeated' = <<>>
  /\ UNCHANGED <<handling, call, classify, flow, cache>>

\* keynote_controller.next_slide() and previous_slide()
ChangeSlide ==
  /\ turn.op = "idle"
  /\ \E action \in {"next_slide", "previous_slide"}, anomaly \in Anomalies(0, 0) :
       LET r == Invoke(Machine(anomaly), action)
       IN /\ Commit(r.m)
          /\ turn' = Ran(action, anomaly, action, r.ret, r.m)
          /\ spoken' = <<>>
          /\ UNCHANGED repeated
  /\ UNCHANGED <<handling, call, classify, flow, cache>>

NextSpeak ==
  \/ Launch \/ Quit \/ OpenDocument \/ CloseDocument
  \/ SpeakNextBlock \/ ChangeSlide
  \/ Respond

SpecSpeak == Init /\ [][NextSpeak]_vars

\* keynote_controller.repeat_last_block() once more
RepeatLastBlock ==
  /\ turn.op = "idle" /\ Len(repeated) < MaxRepeatCalls
  /\ \E anomaly \in Anomalies(0, 0) :
       LET r == repeat_last_block(Machine(anomaly))
       IN /\ Commit(r.m)
          /\ turn' = Ran("repeat_last_block", anomaly, "repeat_last_block", r.ret, r.m)
          /\ repeated' = IF r.ret.success THEN Append(repeated, r.ret.text_to_speak)
                         ELSE repeated
          /\ UNCHANGED spoken
  /\ UNCHANGED <<handling, call, classify, flow, cache>>

\* the slide numbers asked for: those of the deck, one below, one above
SlideNumbers == 0..(NSlides + 1)

\* what can go wrong during goto_slide: as before, or one of its own scripts
NavigationAnomalies ==
  Anomalies(0, 0) \cup {[Calm EXCEPT !.fault = s] : s \in NavigationScripts}

\* keynote_controller.goto_slide(slide_number=K)
GotoSlide ==
  /\ turn.op = "idle"
  /\ \E slide_number \in SlideNumbers, anomaly \in NavigationAnomalies :
       LET r == goto_slide(Machine(anomaly), slide_number)
       IN /\ Commit(r.m)
          /\ turn' = [Ran("goto_slide", anomaly, "goto_slide", r.ret, r.m)
                        EXCEPT !.slide_number = slide_number]
          /\ spoken' = <<>>
          /\ UNCHANGED repeated
  /\ UNCHANGED <<handling, call, classify, flow, cache>>

\* ------------------------------------------------------ slides by content

\* the characters of a text: of the text items of the deck and of the texts
\* searched for
Chars(text) ==
  CASE text = "" -> <<>>
    [] text = "title1" -> <<"t", "i", "t", "l", "e", "1">>
    [] text = "title2" -> <<"t", "i", "t", "l", "e", "2">>
    [] text = "body1" -> <<"b", "o", "d", "y", "1">>
    [] text = "body2" -> <<"b", "o", "d", "y", "2">>
    [] text = "title" -> <<"t", "i", "t", "l", "e">>
    [] text = "TITLE2" -> <<"T", "I", "T", "L", "E", "2">>
    [] text = "body1 body2" -> <<"b", "o", "d", "y", "1", " ", "b", "o", "d", "y", "2">>
    [] text = "slide" -> <<"s", "l", "i", "d", "e">>

\* str.lower()
LowerChar(c) ==
  CASE c = "T" -> "t" [] c = "I" -> "i" [] c = "L" -> "l" [] c = "E" -> "e"
    [] OTHER -> c

lower(chars) == [k \in DOMAIN chars |-> LowerChar(chars[k])]

\* str.strip()
RECURSIVE strip(_)
strip(chars) ==
  IF chars = <<>> THEN chars
  ELSE IF Head(chars) = " " THEN strip(Tail(chars))
  ELSE IF chars[Len(chars)] = " " THEN strip(SubSeq(chars, 1, Len(chars) - 1))
  ELSE chars

OccursAt(chars, part, k) == SubSeq(chars, k, k + Len(part) - 1) = part

\* str.find(part) + 1: where part first occurs in chars, 0 when it does not
Find(chars, part) ==
  IF \E k \in 1..(Len(chars) - Len(part) + 1) : OccursAt(chars, part, k)
  THEN CHOOSE k \in 1..(Len(chars) - Len(part) + 1) :
         /\ OccursAt(chars, part, k)
         /\ \A j \in 1..(k - 1) : ~OccursAt(chars, part, j)
  ELSE 0

\* "part in chars"
Contains(chars, part) == Find(chars, part) # 0

\* str.split(sep)
RECURSIVE split(_, _)
split(chars, sep) ==
  IF Find(chars, sep) = 0 THEN <<chars>>
  ELSE <<SubSeq(chars, 1, Find(chars, sep) - 1)>>
       \o split(SubSeq(chars, Find(chars, sep) + Len(sep), Len(chars)), sep)

Digits == <<"0", "1", "2", "3", "4", "5", "6", "7", "8", "9">>

\* whether int(chars) succeeds, and what it gives
IsNumber(chars) ==
  chars # <<>> /\ \A k \in DOMAIN chars : \E d \in DOMAIN Digits : Digits[d] = chars[k]

DigitValue(c) == (CHOOSE d \in DOMAIN Digits : Digits[d] = c) - 1

RECURSIVE int(_)
int(chars) ==
  IF chars = <<>> THEN 0
  ELSE 10 * int(SubSeq(chars, 1, Len(chars) - 1)) + DigitValue(chars[Len(chars)])

\* the slide number as AppleScript writes it (the decks have few slides)
Numeral(i) == <<Digits[i + 1]>>

RECURSIVE Concat(_)
Concat(parts) == IF parts = <<>> THEN <<>> ELSE Head(parts) \o Concat(Tail(parts))

RECURSIVE JoinChars(_, _)
JoinChars(parts, sep) ==
  IF parts = <<>> THEN <<>>
  ELSE IF Len(parts) = 1 THEN Head(parts)
  ELSE Head(parts) \o sep \o JoinChars(Tail(parts), sep)

\* "set slideText to slideText & (object text of text item t) & " ""
slideText(s) == Concat([t \in DOMAIN Deck[s] |-> Chars(Deck[s][t]) \o <<" ">>])

\* "set end of slideContents to i & ":" & slideText"
slideContents == [i \in 1..NSlides |-> Numeral(i) \o <<":">> \o slideText(i)]

\* "slideContents as string": the elements one after the other (AppleScript's
\* text item delimiters are empty by default), or separated by ", " as the
\* parsing below expects
ListCoercions == {"concatenated", "delimited"}

AsString(list, coercion) ==
  IF coercion = "delimited" THEN JoinChars(list, <<",", " ">>) ELSE Concat(list)

\* the script of _get_all_slides_content through run_applescript
all_slides_content(m, coercion) ==
  IF "all_slides_content" \notin m.faults /\ m.kn.running /\ m.kn.doc
  THEN [m |-> Logged(m, "all_slides_content", TRUE, ""),
        success |-> TRUE,
        result |-> strip(AsString(slideContents, coercion))]
  ELSE [m |-> Logged(m, "all_slides_content", FALSE, "keynote_error"),
        success |-> FALSE,
        result |-> <<>>]

\* "slides[num] = text": a dict keeps a key where it first came in
Put(slides, num, text) ==
  IF \E k \in DOMAIN slides : slides[k].num = num
  THEN [k \in DOMAIN slides |->
          IF slides[k].num = num THEN [num |-> num, text |-> text] ELSE slides[k]]
  ELSE Append(slides, [num |-> num, text |-> text])

\* "num, text = line.split(":", 1)" and the two strip() of line 884
PutLine(slides, line, colon) ==
  IF colon = 0 THEN slides
  ELSE Put(slides, strip(SubSeq(line, 1, colon - 1)),
                   strip(SubSeq(line, colon + 1, Len(line))))

RECURSIVE ParseLines(_, _)
ParseLines(lines, slides) ==
  IF lines = <<>> THEN slides
  ELSE ParseLines(Tail(lines), PutLine(slides, Head(lines), Find(Head(lines), <<":">>)))

\* _get_all_slides_content: the dict as the sequence of its items
get_all_slides_content(m, coercion) ==
  Bind(all_slides_content(m, coercion), LAMBDA r :
    [m |-> r.m,
     ret |-> IF ~r.success \/ r.result = <<>> THEN <<>>
             ELSE ParseLines(split(r.result, <<",", " ">>), <<>>)])

\* best_match = None, best_score = 0
NoMatch == [found |-> FALSE, num |-> <<>>, length |-> 0, raised |-> FALSE]

\* "score > best_score" for score = len(content_text) / len(slide_text) * 100
\* and best_score the score of the best slide so far
Better(query, text, best) ==
  IF best.found THEN Len(query) * best.length > Len(query) * Len(text)
  ELSE Len(query) > 0

\* lines 808-814; the division raises on an empty slide text
RECURSIVE BestMatch(_, _, _)
BestMatch(slides, query, best) ==
  IF slides = <<>> THEN best
  ELSE IF ~Contains(lower(Head(slides).text), lower(query))
  THEN BestMatch(Tail(slides), query, best)
  ELSE IF Head(slides).text = <<>> THEN [best EXCEPT !.raised = TRUE]
  ELSE IF Better(query, Head(slides).text, best)
  THEN BestMatch(Tail(slides), query,
                 [found |-> TRUE, num |-> Head(slides).num,
                  length |-> Len(Head(slides).text), raised |-> FALSE])
  ELSE BestMatch(Tail(slides), query, best)

\* lines 816-824: "if best_match:" is false for None and for the key "";
\* int() raises on a key that is no number
AfterSearch(m, content_text, best) ==
  IF best.raised THEN Raises(m)
  ELSE IF ~best.found \/ best.num = <<>>
  THEN Done(m, Result(FALSE, "slide_with_text_not_found:" \o content_text))
  ELSE IF ~IsNumber(best.num) THEN Raises(m)
  ELSE Bind(goto_slide_by_number(m, int(best.num)), LAMBDA r : Done(r.m, r.ret))

goto_slide_by_content(m, content_text, coercion) ==
  Bind(get_all_slides_content(m, coercion), LAMBDA all :
    IF all.ret = <<>> THEN Done(all.m, Result(FALSE, "slides_content_unavailable"))
    ELSE AfterSearch(all.m, content_text,
                     BestMatch(all.ret, Chars(content_text), NoMatch)))

\* the texts searched for
Queries == {"", "title", "title2", "TITLE2", "body1 body2", "slide"}

\* what can go wrong during goto_slide_by_content
ContentAnomalies ==
  NavigationAnomalies \cup {[Calm EXCEPT !.fault = "all_slides_content"]}

\* keynote_controller.goto_slide_by_content(content_text)
GotoSlideByContent ==
  /\ turn.op = "idle"
  /\ \E content_text \in Queries, coercion \in ListCoercions,
        anomaly \in ContentAnomalies :
       LET r == goto_slide_by_content(Machine(anomaly), content_text, coercion)
       IN /\ Commit(r.m)
          /\ turn' = [Ran("goto_slide_by_content", anomaly, "goto_slide", r.ret, r.m)
                        EXCEPT !.content_text = content_text,
                               !.coercion = coercion,
                               !.out = IF r.raised THEN Raised ELSE @]
          /\ spoken' = <<>>
          /\ UNCHANGED repeated
  /\ UNCHANGED <<handling, call, classify, flow, cache>>

NextCapabilities ==
  \/ Launch \/ Quit \/ OpenDocument \/ CloseDocument
  \/ SpeakNextBlock \/ RepeatLastBlock \/ ChangeSlide \/ GotoSlide
  \/ GotoSlideByContent
  \/ Respond

SpecCapabilities == Init /\ [][NextCapabilities]_vars

\* ------------------------------------------------------- reading the log

ScriptEvents(calls) == SelectSeq(calls, LAMBDA e : e.kind = "script")

\* the query came back and said yes
Positive(e) == e.ok /\ e.text = "true"

EventsOf(what) == {i \in DOMAIN turn.calls : turn.calls[i].kind = what}

\* the tracker tells the host, the document and the slideshow apart as
\* Keynote has them
TrackerAgrees ==
  /\ context.state = NO_KEYNOTE <=> ~keynote.running
  /\ context.state \in {NO_PRESENTATION, READY} <=> keynote.running /\ ~keynote.doc
  /\ context.state = PLAYING <=> keynote.running /\ keynote.doc /\ keynote.mode = "playing"

HostAndDocumentBefore ==
  turn.keynote_before.running /\ turn.keynote_before.doc

\* ----------------------------------------------------------------- C1

\* C1: handle_command never raises: whatever the classifier and the backend
\* calls come back with, the classifier producing no result included, it
\* returns a result of the single-action, multiple-actions or
\* need_clarification shape.
C1_AlwaysReturnsAResult ==
  turn.op = "handle_command"
    => turn.out.shape \in {"single", "multiple_actions", "need_clarification"}

\* ----------------------------------------------------------------- C2

\* C2: validate_action(action) returns valid=true exactly when the action is
\* in the table entry of the state its refresh left in the tracker
\* (NO_KEYNOTE permits only start; PLAYING permits next_slide,
\* previous_slide, pause, end_presentation, status, goto_slide,
\* speak_next_block, repeat_last_block and neither start nor resume);
\* otherwise valid=false with a message that is present and not empty.
C2_ValidIffInTable ==
  turn.op = "validate_action" =>
    /\ turn.valid <=> turn.action \in valid_actions(context.state)
    /\ context.state = NO_KEYNOTE => (turn.valid <=> turn.action = "start")
    /\ context.state = PLAYING =>
         (turn.valid <=> turn.action \in
            {"next_slide", "previous_slide", "pause", "end_presentation", "status",
             "goto_slide", "speak_next_block", "repeat_last_block"})
    /\ ~turn.valid => turn.message \notin {"", NoMessage}
    /\ turn.valid => turn.message = NoMessage

\* start is refused while the tracker, just refreshed, says PLAYING
C2_Witness ==
  /\ turn.op = "validate_action" /\ turn.action = "start"
  /\ turn.before.state = NO_KEYNOTE /\ context.state = PLAYING
  /\ ~turn.valid /\ turn.message = "not_available_while_playing"

\* ----------------------------------------------------------------- C3

\* C3: update_state leaves the tracker in one of the five states, and when a
\* backend query of the refresh fails the state it leaves is NO_KEYNOTE, not
\* a value carried over from an earlier refresh.
C3_FailedQueryGivesNoKeynote ==
  turn.op = "update_state" =>
    /\ context.state \in PresentationState
    /\ (\E i \in EventsOf("script") : ~turn.calls[i].ok) => context.state = NO_KEYNOTE

\* ----------------------------------------------------------------- C4

\* C4: when the capability invoked for a validated action raises, the
\* handler returns normally, and the execution_result of that intent (the
\* turn's, or the intent's entry in the list of a multi-intent turn) is
\* {success: false, message: <cause>}.
C4_RaiseBecomesResult ==
  turn.op = "handle_command" =>
    \A i \in EventsOf("raise") :
      /\ turn.out.shape # "raised"
      /\ turn.classified.shape = "single" =>
           /\ turn.out.shape = "single" /\ turn.out.has_execution_result
           /\ turn.out.action = turn.calls[i].name
           /\ ~turn.out.execution_result.success
           /\ turn.out.execution_result.message = "execution_error"
      /\ turn.classified.shape = "multiple" =>
           /\ turn.out.shape = "multiple_actions"
           /\ \E j \in DOMAIN turn.out.actions :
                /\ turn.out.actions[j].action = turn.calls[i].name
                /\ ~turn.out.actions[j].execution_result.success
                /\ turn.out.actions[j].execution_result.message = "execution_error"

\* the second capability of a two-intent turn raised, after the first ran
C4_Witness ==
  /\ turn.op = "handle_command" /\ turn.classified.shape = "multiple"
  /\ turn.anomaly.raisesAt = 2 /\ EventsOf("raise") # {}
  /\ Len(turn.out.actions) = 2
  /\ turn.out.actions[1].execution_result.success

\* ----------------------------------------------------------------- C5

C6_StartFromReady ==
  ( /\ turn.op = "handle_command" /\ turn.anomaly = Calm
    /\ turn.classified = Single("start", 85)
    /\ turn.before.state = READY
    /\ HostAndDocumentBefore /\ turn.keynote_before.mode = "stopped" )
    => /\ \E i \in EventsOf("invoke") : turn.calls[i].name = "start"
       /\ turn.out.shape = "single" /\ turn.out.execution_result.success
       /\ context.state = PLAYING

\* ----------------------------------------------------------------- C7

\* C7: with the host running, a document open and the slideshow not playing
\* because it was never started, update_state yields READY.
C7_OpenAndStoppedIsReady ==
  ( /\ turn.op = "update_state" /\ turn.anomaly = Calm
    /\ HostAndDocumentBefore /\ turn.keynote_before.mode = "stopped" )
    => context.state = READY

\* ----------------------------------------------------------------- C8

\* C8: with the tracker in PLAYING and the slideshow playing, a turn
\* classified as start (at a confidence the dispatcher acts on) returns
\* normally with an execution_result whose success is false and whose
\* message is not empty.
C8_StartWhilePlayingIsRefused ==
  ( /\ turn.op = "handle_command"
    /\ turn.classified.shape = "single" /\ turn.classified.action = "start"
    /\ turn.classified.confidence >= 50
    /\ turn.before.state = PLAYING
    /\ HostAndDocumentBefore /\ turn.keynote_before.mode = "playing" )
    => /\ turn.out.shape = "single" /\ turn.out.has_execution_result
       /\ ~turn.out.execution_result.success
       /\ turn.out.execution_result.message \notin {"", NoMessage}

\* the validator refused it and the slideshow plays on
C8_Witness ==
  /\ turn.op = "handle_command" /\ turn.anomaly = Calm
  /\ turn.classified = Single("start", 85)
  /\ turn.before.state = PLAYING /\ turn.keynote_before.mode = "playing"
  /\ turn.out.execution_result.message = "not_available_while_playing"
  /\ EventsOf("invoke") = {}
  /\ context.state = PLAYING /\ keynote.mode = "playing"

\* ----------------------------------------------------------------- C9

\* C9: update_state asks host-running first, document-open second and the
\* playback status last, and stops at the first negative: a negative host
\* check sets NO_KEYNOTE with no further query, a negative document check
\* sets NO_PRESENTATION with no status query, and the status (play/pause,
\* slide indices) is read only after both checks said yes.
C9_ShortCircuitOrder ==
  turn.op \in {"update_state", "validate_action"} =>
    LET s == ScriptEvents(turn.calls)
    IN /\ Len(s) >= 1 /\ s[1].name = "exists_process"
       /\ ~Positive(s[1]) => Len(s) = 1 /\ context.state = NO_KEYNOTE
       /\ Positive(s[1]) => Len(s) >= 2 /\ s[2].name = "exists_document"
       /\ (Positive(s[1]) /\ ~Positive(s[2])) =>
            Len(s) = 2 /\ context.state = NO_PRESENTATION
       /\ (Positive(s[1]) /\ Positive(s[2])) => Len(s) >= 3
       /\ \A i \in 3..Len(s) : s[i].name \in {"exists_process", "status"}
       /\ context.state \in {READY, PLAYING, PAUSED} /\ context # turn.before =>
            \E i \in 3..Len(s) : s[i].name = "status" /\ s[i].ok

\* the document check said no: two queries, NO_PRESENTATION
C9_Witness ==
  /\ turn.op = "update_state" /\ turn.anomaly = Calm
  /\ Len(ScriptEvents(turn.calls)) = 2
  /\ Positive(ScriptEvents(turn.calls)[1])
  /\ ScriptEvents(turn.calls)[2].ok /\ ScriptEvents(turn.calls)[2].text = "false"
  /\ context.state = NO_PRESENTATION

\* ---------------------------------------------------------------- C10

\* C10: speak_next_block called again and again on an unchanged slide with K
\* non-empty paragraphs gives paragraph 1, 2, ..., K on calls 1..K and
\* paragraph 1 again on call K+1.
C10_CyclesThroughParagraphs ==
  \A i \in 1..Len(spoken) :
    spoken[i] = Paragraphs(SlideLines(keynote.slide))
                  [((i - 1) % Len(Paragraphs(SlideLines(keynote.slide)))) + 1]

\* ---------------------------------------------------------------- C11

\* C11: repeat_last_block is idempotent: successive calls with no
\* speak_next_block between them give the same text_to_speak, whatever other
\* commands (slide navigation among them) run in between, and none of them
\* changes the spoken-text cursor.
C11_RepeatGivesTheSameText ==
  /\ \A i, j \in DOMAIN repeated : repeated[i] = repeated[j]
  /\ turn.op = "repeat_last_block" => last_spoken_text = NoText

\* ---------------------------------------------------------------- C12

\* C12: goto_slide with a slide_number outside 1..total_slides returns
\* success=false and never hands the "show slide K" program to Keynote.
C12_NoNavigationOutOfRange ==
  (turn.op = "goto_slide" /\ turn.slide_number \notin 1..NSlides) =>
    /\ ~turn.out.execution_result.success
    /\ \A i \in EventsOf("script") : turn.calls[i].name # "show_slide"
    /\ keynote.slide = turn.keynote_before.slide \/ ~turn.keynote_before.doc

\* slide NSlides + 1 is asked for while the slideshow plays: refused by the
\* range check, the slide shown stays
C12_Witness ==
  /\ turn.op = "goto_slide" /\ turn.anomaly = Calm
  /\ turn.slide_number = NSlides + 1
  /\ turn.keynote_before.mode = "playing"
  /\ turn.out.execution_result.message = "slide_does_not_exist"
  /\ \E i \in EventsOf("script") : turn.calls[i].name = "presentation_info"
  /\ keynote.slide = turn.keynote_before.slide

\* ------------------------------------------ reading a multi-intent turn

\* an intent the handlers are to act on
Actionable(a) ==
  a.confidence >= 50 /\ a.action \notin {"unknown", "need_clarification"}

NonSkipped(actions) == SelectSeq(actions, Actionable)

\* the intents the results were made from
IntentsOf(results) ==
  [k \in DOMAIN results |->
     [action |-> results[k].action, confidence |-> results[k].confidence]]

RECURSIVE IsSubsequence(_, _)
IsSubsequence(s, t) ==
  IF s = <<>> THEN TRUE
  ELSE IF t = <<>> THEN FALSE
  ELSE IF Head(s) = Head(t) THEN IsSubsequence(Tail(s), Tail(t))
  ELSE IsSubsequence(s, Tail(t))

\* the capabilities called, in the order of the calls
InvokedNames ==
  [k \in DOMAIN SelectSeq(turn.calls, LAMBDA e : e.kind = "invoke") |->
     SelectSeq(turn.calls, LAMBDA e : e.kind = "invoke")[k].name]

\* the actions of the results that have a registered capability
RegisteredResults ==
  [k \in DOMAIN SelectSeq(turn.out.actions, LAMBDA r : r.action \in COMMAND_FUNCTIONS) |->
     SelectSeq(turn.out.actions, LAMBDA r : r.action \in COMMAND_FUNCTIONS)[k].action]

MultiTurn == turn.op = "handle_command" /\ turn.classified.shape = "multiple"

SingleTurn == turn.op = "handle_command" /\ turn.classified.shape = "single"

NoQueryFails == turn.anomaly.fault = "none" /\ turn.anomaly.closeAt = 0

\* the state the refresh of line 479 left in the tracker
StateAtEntry ==
  turn.calls[CHOOSE i \in EventsOf("state") : \A j \in EventsOf("state") : i <= j].name

\* the refresh that began last before event i
LastRefreshBefore(i) ==
  CHOOSE j \in EventsOf("update_state") :
    j < i /\ \A k \in EventsOf("update_state") : k < i => k <= j

\* ---------------------------------------------------------------- C13

\* C13: a turn classified as handle_question, search_web or generate_summary
\* with confidence >= 0.5, whose knowledge services answer, yields an
\* execution_result with success=true, a display message and a
\* text_to_speak.
C13_KnowledgeActionsAnswer ==
  ( /\ SingleTurn /\ turn.anomaly = Calm
    /\ turn.classified.action \in {"handle_question", "search_web", "generate_summary"}
    /\ turn.classified.confidence >= 50
    /\ HostAndDocumentBefore /\ turn.keynote_before.mode = "playing" )
    => /\ turn.out.shape = "single" /\ turn.out.has_execution_result
       /\ turn.out.execution_result.success
       /\ turn.out.execution_result.message # ""
       /\ turn.out.execution_result.text_to_speak # NoText

\* ---------------------------------------------------------------- C14

\* C14: handle_multiple_commands goes through the intents in the order the
\* classifier gave, never executes one with confidence below 0.5 or with
\* action unknown or need_clarification, and returns results that are a
\* subsequence of the input intents, in the same order; the capabilities
\* called are those of the results, in that order.
C14_InOrderWithoutSkipped ==
  MultiTurn =>
    /\ turn.out.shape = "multiple_actions"
    /\ IsSubsequence(IntentsOf(turn.out.actions), NonSkipped(turn.classified.actions))
    /\ \A k \in DOMAIN turn.out.actions : Actionable(turn.out.actions[k])
    /\ InvokedNames = RegisteredResults

\* a low-confidence intent first, then one that ran: one result, one call
C14_Witness ==
  /\ MultiTurn /\ Len(turn.classified.actions) = 2
  /\ turn.classified.actions[1] = [action |-> "next_slide", confidence |-> 40]
  /\ Len(turn.out.actions) = 1
  /\ turn.out.actions[1].action = "speak_next_block"
  /\ turn.out.actions[1].execution_result.success
  /\ InvokedNames = <<"speak_next_block">>

\* ---------------------------------------------------------------- C15

\* C15: in handle_multiple_commands each intent is validated against the
\* tracker state refreshed at its own point in the sequence: every
\* capability call follows a refresh made for its own validation, whose
\* state permits the action; so [start, next_slide], begun in a state where
\* next_slide is illegal, has both executed and both results returned in
\* that order once start succeeds.
C15_ValidatedAtItsOwnPoint ==
  turn.op = "handle_command" =>
    /\ \A i \in EventsOf("invoke") :
         /\ i > 2 /\ turn.calls[i - 1].kind = "extract" /\ turn.calls[i - 2].kind = "state"
         /\ turn.calls[i].name \in valid_actions(turn.calls[i - 2].name)
         /\ LastRefreshBefore(i) > 1
         /\ ~(turn.calls[LastRefreshBefore(i) - 1].kind = "return"
                /\ turn.calls[LastRefreshBefore(i) - 1].ok)
         /\ \A k \in EventsOf("invoke") : k < i => k < LastRefreshBefore(i)
    /\ ( /\ NoQueryFails
         /\ turn.classified = Multiple(<<[action |-> "start", confidence |-> 85],
                                         [action |-> "next_slide", confidence |-> 85]>>)
         /\ "next_slide" \notin valid_actions(StateAtEntry)
         /\ Len(turn.out.actions) >= 1
         /\ turn.out.actions[1].action = "start"
         /\ turn.out.actions[1].execution_result.success )
       => /\ Len(turn.out.actions) = 2
          /\ turn.out.actions[2].action = "next_slide"
          /\ InvokedNames = <<"start", "next_slide">>

\* from NO_KEYNOTE: start launched Keynote and the slideshow, next_slide
\* then moved to slide 2
C15_Witness ==
  /\ MultiTurn /\ turn.anomaly = Calm
  /\ turn.classified = Multiple(<<[action |-> "start", confidence |-> 85],
                                  [action |-> "next_slide", confidence |-> 85]>>)
  /\ ~turn.keynote_before.running
  /\ Len(turn.out.actions) = 2
  /\ turn.out.actions[1].execution_result.success
  /\ turn.out.actions[2].execution_result.success
  /\ keynote.mode = "playing" /\ keynote.slide = 2

\* ---------------------------------------------------------------- C16

\* C16: in handle_multiple_commands an intent whose execution returns
\* success=false or raises does not abort the sequence: every actionable
\* intent is validated whatever happened to the earlier ones, every intent
\* that passed validation has its result, and a result says success exactly
\* when its capability returned success.
C16_FailureDoesNotAbort ==
  MultiTurn =>
    /\ turn.out.shape = "multiple_actions"
    /\ Cardinality(EventsOf("update_state"))
         = 1 + Len(NonSkipped(turn.classified.actions))
             + Cardinality({i \in EventsOf("return") : turn.calls[i].ok})
    /\ Len(turn.out.actions) = Cardinality(EventsOf("extract"))
    /\ Cardinality({k \in DOMAIN turn.out.actions :
                      turn.out.actions[k].execution_result.success})
         = Cardinality({i \in EventsOf("return") : turn.calls[i].ok})

\* the first capability raised, the second intent ran all the same
C16_Witness ==
  /\ MultiTurn /\ turn.anomaly.raisesAt = 1
  /\ Len(turn.out.actions) = 2
  /\ ~turn.out.actions[1].execution_result.success
  /\ turn.out.actions[1].execution_result.message = "execution_error"
  /\ turn.out.actions[2].execution_result.success
  /\ Cardinality(EventsOf("invoke")) = 2

\* ---------------------------------------------------------------- C17

\* C17: in a multi-intent turn each intent the validator rejects appears in
\* the returned results with success=false and the validator's message, as
\* a rejected single intent does: every actionable intent has a result.
C17_RejectionsAreReported ==
  /\ MultiTurn =>
       /\ Len(turn.out.actions) = Len(NonSkipped(turn.classified.actions))
       /\ IntentsOf(turn.out.actions) = NonSkipped(turn.classified.actions)
  /\ (SingleTurn /\ Actionable(turn.classified) /\ EventsOf("extract") = {}) =>
       /\ turn.out.has_execution_result /\ ~turn.out.execution_result.success
       /\ turn.out.execution_result.message = messages(context.state)

\* ---------------------------------------------------------------- C18

\* C18: the keyword arguments a capability is called with are exactly the
\* extracted parameters whose names are in its signature; a parameter it
\* does not accept (slide_count for next_slide, rate for repeat_last_block)
\* is never passed and never makes the call fail.
C18_OnlyAcceptedParameters ==
  turn.op = "handle_command" =>
    /\ \A i \in EventsOf("invoke") :
         /\ i > 1 /\ turn.calls[i - 1].kind = "extract"
         /\ turn.calls[i - 1].name = turn.calls[i].name
         /\ turn.calls[i].text =
              IF turn.calls[i - 1].text \in Signature(turn.calls[i].name)
              THEN turn.calls[i - 1].text ELSE ""
         /\ turn.calls[i].name \in {"next_slide", "previous_slide", "repeat_last_block"}
              => turn.calls[i].text = ""
         /\ turn.calls[i].name = "speak_next_block" /\ turn.text.rate
              => turn.calls[i].text = "rate"
    /\ EventsOf("raise") # {} => turn.anomaly.raisesAt # 0

\* "3 слайда дальше": slide_count is extracted, next_slide is called with no
\* argument and succeeds
C18_Witness ==
  /\ SingleTurn /\ turn.anomaly = Calm /\ turn.text.slide_count
  /\ turn.classified.action = "next_slide"
  /\ \E i \in EventsOf("invoke") :
       /\ turn.calls[i - 1].kind = "extract" /\ turn.calls[i - 1].text = "slide_count"
       /\ turn.calls[i].text = ""
  /\ turn.out.execution_result.success

\* ---------------------------------------------------------------- C19

\* the state the validation refresh of a single-intent turn left
StateAtValidation ==
  turn.calls[CHOOSE i \in EventsOf("state") : \A j \in EventsOf("state") : j <= i].name

\* C19: for an action that passes validation but has no registered
\* capability the turn returns execution_result success=false with a
\* message naming the action, calls no capability, does not refresh the
\* tracker after the validation and does not raise; a multi-intent turn
\* records the same for that intent.
C19_UnregisteredAction ==
  /\ ( /\ SingleTurn /\ Actionable(turn.classified)
       /\ turn.classified.action \notin COMMAND_FUNCTIONS
       /\ turn.classified.action \in valid_actions(StateAtValidation) )
     => /\ turn.out.shape = "single" /\ turn.out.has_execution_result
        /\ ~turn.out.execution_result.success
        /\ turn.out.execution_result.message = "unknown_command: goto_slide"
        /\ turn.out.action = "goto_slide"
        /\ EventsOf("invoke") = {}
        /\ Cardinality(EventsOf("update_state")) = 2
        /\ turn.calls[Len(turn.calls)].kind = "extract"
  /\ MultiTurn =>
       /\ turn.out.shape = "multiple_actions"
       /\ \A k \in DOMAIN turn.out.actions :
            turn.out.actions[k].action \notin COMMAND_FUNCTIONS =>
              /\ ~turn.out.actions[k].execution_result.success
              /\ turn.out.actions[k].execution_result.message = "unknown_command: goto_slide"
       /\ \A i \in EventsOf("invoke") : turn.calls[i].name \in COMMAND_FUNCTIONS
       /\ Cardinality(EventsOf("update_state"))
            = 1 + Len(NonSkipped(turn.classified.actions))
                + Cardinality({i \in EventsOf("return") : turn.calls[i].ok})

\* goto_slide while the slideshow plays: valid, unregistered, refused
C19_Witness ==
  /\ SingleTurn /\ turn.anomaly = Calm
  /\ turn.classified = Single("goto_slide", 85)
  /\ StateAtValidation = PLAYING
  /\ turn.out.execution_result.message = "unknown_command: goto_slide"
  /\ keynote = turn.keynote_before

\* ---------------------------------------------------------------- C20

\* C20: when the classified intent has confidence below 0.5 or is unknown or
\* need_clarification, handle_command returns action need_clarification with
\* a non-empty message, calls no capability and does not raise.
C20_AsksForClarification ==
  (SingleTurn /\ ~Actionable(turn.classified)) =>
    /\ turn.out.shape = "need_clarification"
    /\ turn.out.action = "need_clarification"
    /\ turn.out.confidence = turn.classified.confidence
    /\ turn.out.message # ""
    /\ ~turn.out.has_execution_result
    /\ EventsOf("invoke") = {} /\ EventsOf("extract") = {}
    /\ Cardinality(EventsOf("update_state")) = 1

\* start at confidence 0.4 with Keynote not running: a question back, with
\* the hint of NO_KEYNOTE
C20_Witness ==
  /\ SingleTurn /\ turn.classified = Single("start", 40)
  /\ turn.out.action = "need_clarification"
  /\ turn.out.message = "keynote_not_running_will_start"
  /\ keynote = turn.keynote_before /\ ~keynote.running

\* ---------------------------------------------------------------- C21

\* C21: when the classifier's confidence lies in the middle band 0.3 to 0.7
\* the turn asks the user to confirm, with a result of the need_clarification
\* shape, and calls no capability: an intent in that band is never executed
\* silently.
C21_MiddleBandAsksToConfirm ==
  (SingleTurn /\ turn.classified.confidence \in 30..70) =>
    /\ turn.out.shape = "need_clarification"
    /\ EventsOf("invoke") = {}

\* --------------------------------------------------- the message handlers

\* get_user_session: the store, with a session for the user in it
get_user_session(store, user_id) ==
  IF user_id \in DOMAIN store THEN store
  ELSE [u \in DOMAIN store \cup {user_id} |->
          IF u = user_id THEN NewSession ELSE store[u]]

\* what the classifier makes of the messages sent to the handlers
HandlerClassifications ==
  {identify_action(s) : s \in PresentationState}
  \cup {Single("start", 85), Single("start", 40)}
  \cup {Multiple(<<[action |-> "start", confidence |-> 85],
                   [action |-> "speak_next_block", confidence |-> 85]>>),
        Multiple(<<[action |-> "unknown", confidence |-> 0]>>)}

\* "exec_result.get('text_to_speak', exec_result['message'])" on success,
\* "exec_result['message']" otherwise
ResponseText(res) ==
  IF res.success /\ res.text_to_speak # NoText THEN res.text_to_speak ELSE res.message

\* sep.join(parts), as the sequence of its pieces
RECURSIVE Join(_, _)
Join(parts, sep) ==
  IF Len(parts) <= 1 THEN parts
  ELSE <<Head(parts), sep>> \o Join(Tail(parts), sep)

\* the loop over the results of a multi-intent turn (handlers.py 117-138 and
\* 294-316); every result handle_multiple_commands returns has an
\* execution_result
response_parts(actions) ==
  [k \in DOMAIN actions |-> ResponseText(actions[k].execution_result)]

\* message.reply(text), message.answer(text), message.answer_voice(file)
Reply(text) == [how |-> "reply", text |-> text]
Answer(text) == [how |-> "answer", text |-> text]
VoiceMessage(text) == [how |-> "voice", text |-> text]

\* the try block around synthesize_response: a voice message when the
\* synthesis works (tts), nothing when it raises
Voiced(text, tts) == IF tts THEN <<VoiceMessage(text)>> ELSE <<>>

\* handlers.py 110-154: the reply to a multi-intent turn
MultiReplies(out, tts) ==
  IF response_parts(out.actions) = <<>> THEN <<>>
  ELSE <<Reply(Join(response_parts(out.actions), ". "))>>
         \o Voiced(Join(response_parts(out.actions), ". "), tts)

\* handlers.py 157-225 and 339-407: the reply to a single-intent turn
SingleReplies(out, tts) ==
  IF out.has_execution_result
  THEN <<Reply(<<ResponseText(out.execution_result)>>)>>
         \o (IF ~out.execution_result.success THEN <<>>
             ELSE IF tts THEN <<VoiceMessage(<<ResponseText(out.execution_result)>>)>>
             ELSE IF /\ out.action \in {"speak_next_block", "repeat_last_block"}
                     /\ out.execution_result.text_to_speak # NoText
             THEN <<Answer(<<"cannot_voice_the_text">>)>>
             ELSE <<>>)
  ELSE IF out.action = "need_clarification"
  THEN <<Reply(<<out.message>>)>> \o Voiced(<<out.message>>, tts)
  ELSE <<Reply(<<"performing_action">>)>> \o Voiced(<<"performing_action">>, tts)

\* a session access of handler i, put down in the journal
Accessed(i, what) ==
  Append(journal, [msg |-> i, user |-> tasks[i].user, what |-> what])

\* the dispatcher starts a handler for a message: text_message_handler up to
\* its first await (line 246), voice_message_handler up to line 79.  A
\* message is numbered anew only once the journal holds nothing of the
\* number's last message.
Receive ==
  /\ \E i \in Messages, user \in Users, kind \in {"text", "voice"} :
       /\ tasks[i].pc = "none"
       /\ \A k \in DOMAIN journal : journal[k].msg # i
       /\ \A j \in Messages \ {i} :
            tasks[j].kind = "voice" \/ kind = "voice" => tasks[j].pc = "none"
       /\ tasks' = [tasks EXCEPT ![i] =
                      [NoTask EXCEPT !.kind = kind, !.user = user,
                                     !.pc = IF kind = "text" THEN "typing" ELSE "processing"]]
       /\ sent' = [sent EXCEPT ![i] =
                     IF kind = "voice" THEN <<Answer(<<"processing">>)>> ELSE <<>>]
  /\ UNCHANGED <<keynote, context, last_spoken_text, turn, spoken, repeated>>
  /\ UNCHANGED <<sessions, journal, call, classify, flow, cache>>

\* lines 249-258: the session is fetched, the flag read and reset, and
\* handle_command called
TextEnter ==
  /\ \E i \in Messages :
       /\ tasks[i].kind = "text" /\ tasks[i].pc = "typing"
       /\ sessions' = [get_user_session(sessions, tasks[i].user)
                         EXCEPT ![tasks[i].user].awaiting_clarification = FALSE]
       /\ tasks' = [tasks EXCEPT
                      ![i].pc = "handling",
                      ![i].awaited = get_user_session(sessions, tasks[i].user)
                                       [tasks[i].user].awaiting_clarification]
       /\ journal' = Accessed(i, "reset")
  /\ UNCHANGED <<keynote, context, last_spoken_text, turn, spoken, repeated>>
  /\ UNCHANGED <<sent, call, classify, flow, cache>>

\* where text_message_handler goes with what handle_command returned, up to
\* its next await: an exception of handle_command leaves the handler; line
\* 261 reads result["action"], a key the multi-intent result does not have
\* (KeyError); a clarification is replied to (263); a single result is
\* noted in the session (335-336) and replied to (351 or 398)
AfterCommand(i, out) ==
  IF out.shape \in {"raised", "multiple_actions"}
  THEN /\ tasks' = [tasks EXCEPT ![i].pc = "failed", ![i].out = out, ![i].error = TRUE]
       /\ UNCHANGED <<sessions, journal>>
  ELSE IF out.shape = "need_clarification"
  THEN /\ tasks' = [tasks EXCEPT ![i].pc = "clarifying", ![i].out = out]
       /\ UNCHANGED <<sessions, journal>>
  ELSE /\ tasks' = [tasks EXCEPT ![i].pc = "replying", ![i].out = out]
       /\ sessions' = [sessions EXCEPT ![tasks[i].user].last_action = out.action,
                                       ![tasks[i].user].last_message = MessageText]
       /\ journal' = Accessed(i, "note")

\* line 258: handle_command(message.text) runs and returns
TextHandle ==
  /\ \E i \in Messages, result \in HandlerClassifications :
       /\ tasks[i].kind = "text" /\ tasks[i].pc = "handling"
       /\ Commit(handle_command(Machine(Calm), result).m)
       /\ AfterCommand(i, handle_command(Machine(Calm), result).out)
  /\ UNCHANGED <<turn, spoken, repeated, sent, call, classify, flow, cache>>

\* lines 262-263: the clarification request is sent
TextClarify ==
  /\ \E i \in Messages :
       /\ tasks[i].kind = "text" /\ tasks[i].pc = "clarifying"
       /\ sent' = [sent EXCEPT ![i] = Append(@, Reply(<<tasks[i].out.message>>))]
       /\ tasks' = [tasks EXCEPT ![i].pc = "clarified"]
  /\ UNCHANGED <<keynote, context, last_spoken_text, turn, spoken, repeated>>
  /\ UNCHANGED <<sessions, journal, call, classify, flow, cache>>

\* lines 266-279: the request is voiced, then the session is told that a
\* clarification is awaited
TextNoteClarification ==
  /\ \E i \in Messages, tts \in BOOLEAN :
       /\ tasks[i].kind = "text" /\ tasks[i].pc = "clarified"
       /\ sent' = [sent EXCEPT ![i] = @ \o Voiced(<<tasks[i].out.message>>, tts)]
       /\ sessions' = [sessions EXCEPT ![tasks[i].user].awaiting_clarification = TRUE,
                                       ![tasks[i].user].last_message = MessageText]
       /\ journal' = Accessed(i, "await")
       /\ tasks' = [tasks EXCEPT ![i].pc = "done"]
  /\ UNCHANGED <<keynote, context, last_spoken_text, turn, spoken, repeated>>
  /\ UNCHANGED <<call, classify, flow, cache>>

\* lines 339-407: the reply to a single-intent turn
TextReply ==
  /\ \E i \in Messages, tts \in BOOLEAN :
       /\ tasks[i].kind = "text" /\ tasks[i].pc = "replying"
       /\ sent' = [sent EXCEPT ![i] = @ \o SingleReplies(tasks[i].out, tts)]
       /\ tasks' = [tasks EXCEPT ![i].pc = "done"]
  /\ UNCHANGED <<keynote, context, last_spoken_text, turn, spoken, repeated>>
  /\ UNCHANGED <<sessions, journal, call, classify, flow, cache>>

\* what becomes of the recording in transcribe_audio: a transcript, an
\* empty or blank transcript, no API key (line 68), the conversion to MP3
\* failing (78-80), the API failing on all three attempts (104-121), any
\* other exception (123-125)
Recognitions ==
  {"transcript", "blank", "no_api_key", "conversion_error", "api_error",
   "unexpected_error"}

\* speech_to_text.transcribe_audio: every path returns a text
transcribe_audio(recognition) ==
  CASE recognition = "transcript" -> "spoken_command"
    [] recognition = "blank" -> ""
    [] recognition = "no_api_key" -> "cannot_recognise_no_api_key"
    [] recognition = "conversion_error" -> "audio_conversion_error"
    [] recognition = "api_error" -> "speech_recognition_error"
    [] recognition = "unexpected_error" -> "unexpected_error"

\* speech_to_text.process_voice_message: the text stripped, a notice in
\* place of an empty one
process_voice_message(recognition) ==
  IF transcribe_audio(recognition) = "" THEN "no_text_recognised"
  ELSE transcribe_audio(recognition)

\* lines 85-107: process_voice_message returns a text, whatever became of
\* the recording (the except clause of lines 95-98 is for an exception it
\* does not raise); handle_command runs on that text; the "processing"
\* notice is deleted
VoiceHandle ==
  /\ \E i \in Messages, recognition \in Recognitions, result \in HandlerClassifications :
       /\ tasks[i].kind = "voice" /\ tasks[i].pc = "processing"
       /\ Commit(handle_command(Machine(Calm), result).m)
       /\ sent' = [sent EXCEPT ![i] = <<>>]
       /\ tasks' = [tasks EXCEPT
                      ![i].pc = "answering",
                      ![i].recognition = recognition,
                      ![i].heard = process_voice_message(recognition),
                      ![i].out = handle_command(Machine(Calm), result).out]
  /\ UNCHANGED <<turn, spoken, repeated, sessions, journal, call, classify, flow, cache>>

\* lines 110-231: the reply of voice_message_handler; its except clause
\* turns an exception of handle_command into a reply
VoiceReply ==
  /\ \E i \in Messages, tts \in BOOLEAN :
       /\ tasks[i].kind = "voice" /\ tasks[i].pc = "answering"
       /\ sent' = [sent EXCEPT ![i] =
                     IF tasks[i].out.shape = "raised" THEN <<Reply(<<"processing_error">>)>>
                     ELSE IF tasks[i].out.shape = "multiple_actions"
                     THEN MultiReplies(tasks[i].out, tts)
                     ELSE SingleReplies(tasks[i].out, tts)]
       /\ tasks' = [tasks EXCEPT ![i].pc = "done"]
  /\ UNCHANGED <<keynote, context, last_spoken_text, turn, spoken, repeated>>
  /\ UNCHANGED <<sessions, journal, call, classify, flow, cache>>

\* the handler has returned to the dispatcher, or its exception has
\* reached it
Forget ==
  /\ \E i \in Messages :
       /\ tasks[i].pc \in {"done", "failed"}
       /\ tasks' = [tasks EXCEPT ![i] = NoTask]
       /\ sent' = [sent EXCEPT ![i] = <<>>]
       /\ journal' = IF \A j \in Messages \ {i} : tasks[j].pc = "none" THEN <<>>
                     ELSE journal
  /\ UNCHANGED <<keynote, context, last_spoken_text, turn, spoken, repeated>>
  /\ UNCHANGED <<sessions, call, classify, flow, cache>>

NextHandlers ==
  \/ OpenDocument
  \/ Receive
  \/ TextEnter \/ TextHandle \/ TextClarify \/ TextNoteClarification \/ TextReply
  \/ VoiceHandle \/ VoiceReply
  \/ Forget

SpecHandlers == Init /\ [][NextHandlers]_vars

Finished(i) == tasks[i].pc \in {"done", "failed"}

\* ---------------------------------------------------------------- C22

\* C22: if the user's session has awaiting_clarification=true when a message
\* of that user is handled, the flag is false once the handling of that
\* message is complete, whether or not the message resolved the ambiguity.
C22_FlagIsFalseAfterTheNextMessage ==
  \A i \in Messages :
    (Finished(i) /\ tasks[i].kind = "text" /\ tasks[i].awaited)
      => ~sessions[tasks[i].user].awaiting_clarification

\* ---------------------------------------------------------------- C23

\* C23: the handlings of two messages of one user never interleave their
\* session accesses: all the session reads and writes of one handling come
\* before or after all those of the other.
C23_SessionAccessesDoNotInterleave ==
  \A a, b, c \in DOMAIN journal :
    (a < b /\ b < c /\ journal[a].msg = journal[c].msg /\ journal[a].user = journal[b].user)
      => journal[b].msg = journal[a].msg

\* ---------------------------------------------------------------- C29

\* the replies among what a handler has sent
RepliesOf(i) == SelectSeq(sent[i], LAMBDA x : x.how = "reply")

\* C29: for a turn whose result is multiple_actions the handler, of text
\* messages and of voice messages alike, sends exactly one reply, made of the
\* texts of the intents in the classifier's order joined with ". ", and ends
\* without an error.
C29_OneAggregatedReply ==
  \A i \in Messages :
    (Finished(i) /\ tasks[i].out.shape = "multiple_actions")
      => /\ ~tasks[i].error
         /\ RepliesOf(i) = <<Reply(Join(response_parts(tasks[i].out.actions), ". "))>>

\* ------------------------------------------------ the osascript runners

\* keynote_integration.py line 92
max_retries == 3

\* how an attempt of run_enhanced_applescript can end without a result
Outcomes == {"timeout", "error", "exception"}

\* "return success, text": the runner hands its pair to the caller
ReturnPair(c, success, text) ==
  [c EXCEPT !.pc = "returned", !.success = success, !.text = text]

\* the end of an attempt that is neither a result nor a timeout (lines
\* 119-127 and 132-140): given up after the last attempt, slept on otherwise
RetryOrGiveUp(c, outcome, text) ==
  IF c.attempt = max_retries - 1
  THEN ReturnPair([c EXCEPT !.outcomes = Append(@, outcome)], FALSE, text)
  ELSE [c EXCEPT !.outcomes = Append(@, outcome), !.pc = "sleep"]

\* "continue" at line 110: the next attempt at once, or line 143 after the
\* last
ContinueAfterTimeout(c) ==
  IF c.attempt = max_retries - 1
  THEN ReturnPair([c EXCEPT !.outcomes = Append(@, "timeout"), !.proc = "killed"],
                  FALSE, "max_attempts_exceeded")
  ELSE [c EXCEPT !.outcomes = Append(@, "timeout"), !.proc = "killed",
                 !.attempt = @ + 1, !.pc = "spawn"]

\* the error_map of run_applescript (lines 34-48)
error_map(stderr) ==
  CASE stderr = "already_playing" -> "presentation_already_started"
    [] stderr = "no_such_slide" -> "slide_does_not_exist"
    [] OTHER -> "keynote_error"

\* a caller awaits run_applescript(script) or run_enhanced_applescript(script)
CallScript ==
  /\ call.pc = "idle"
  /\ \E runner \in {"run_applescript", "run_enhanced_applescript"} :
       call' = [NoCall EXCEPT !.runner = runner, !.pc = "spawn"]
  /\ UNCHANGED <<keynote, context, last_spoken_text, turn, spoken, repeated>>
  /\ UNCHANGED <<handling, classify, flow, cache>>

\* asyncio.create_subprocess_exec("osascript", ...): the process is started,
\* one that will answer or one that never does, or the call raises
Spawn ==
  /\ call.pc = "spawn"
  /\ \E started \in BOOLEAN, proc \in {"running", "hung"} :
       call' = IF started
               THEN [call EXCEPT !.pc = "communicate", !.proc = proc,
                                 !.launches = @ + 1]
               ELSE IF call.runner = "run_applescript"
               THEN ReturnPair(call, FALSE, "interaction_error")
               ELSE RetryOrGiveUp([call EXCEPT !.proc = "none"], "exception",
                                  "exception_text")
  /\ UNCHANGED <<keynote, context, last_spoken_text, turn, spoken, repeated>>
  /\ UNCHANGED <<handling, classify, flow, cache>>

\* osascript ends: with its answer on stdout, or with an exit code other
\* than 0 and the error on stderr
ProcessExits ==
  /\ call.pc = "communicate" /\ call.proc = "running"
  /\ \E how \in {"stdout", "already_playing", "no_such_slide"} :
       call' = [call EXCEPT !.proc = how]
  /\ UNCHANGED <<keynote, context, last_spoken_text, turn, spoken, repeated>>
  /\ UNCHANGED <<handling, classify, flow, cache>>

\* "stdout, stderr = await proc.communicate()" is back: lines 29-51 of
\* run_applescript, lines 112-130 of run_enhanced_applescript
Communicated ==
  /\ call.pc = "communicate"
  /\ call.proc \in {"stdout", "already_playing", "no_such_slide"}
  /\ call' = IF call.proc = "stdout" THEN ReturnPair(call, TRUE, "stdout")
             ELSE IF call.runner = "run_applescript"
             THEN ReturnPair(call, FALSE, error_map(call.proc))
             ELSE IF call.proc = "already_playing"
             THEN ReturnPair(call, TRUE, "status_already_playing")
             ELSE RetryOrGiveUp(call, "error", call.proc)
  /\ UNCHANGED <<keynote, context, last_spoken_text, turn, spoken, repeated>>
  /\ UNCHANGED <<handling, classify, flow, cache>>

\* asyncio.wait_for(proc.communicate(), timeout=5.0) runs out (lines
\* 104-110): run_enhanced_applescript alone waits with a timeout
TimedOut ==
  /\ call.runner = "run_enhanced_applescript"
  /\ call.pc = "communicate" /\ call.proc \in {"running", "hung"}
  /\ call' = ContinueAfterTimeout(call)
  /\ UNCHANGED <<keynote, context, last_spoken_text, turn, spoken, repeated>>
  /\ UNCHANGED <<handling, classify, flow, cache>>

\* "await asyncio.sleep(0.5)" is over: the next attempt
Slept ==
  /\ call.pc = "sleep"
  /\ call' = [call EXCEPT !.attempt = @ + 1, !.pc = "spawn"]
  /\ UNCHANGED <<keynote, context, last_spoken_text, turn, spoken, repeated>>
  /\ UNCHANGED <<handling, classify, flow, cache>>

\* the caller has the pair and goes on
CallReturned ==
  /\ call.pc = "returned"
  /\ call' = NoCall
  /\ UNCHANGED <<keynote, context, last_spoken_text, turn, spoken, repeated>>
  /\ UNCHANGED <<handling, classify, flow, cache>>

NextScripts ==
  \/ CallScript \/ Spawn \/ ProcessExits \/ Communicated \/ TimedOut \/ Slept
  \/ CallReturned

SpecScripts == Init /\ [][NextScripts]_vars

\* the event loop resumes a coroutine that can go on, a timer that was set
\* fires, and a process that answers does so
SpecScriptsLive == SpecScripts /\ WF_vars(NextScripts)

\* ---------------------------------------------------------------- C24

\* C24: every backend call made during a turn (a run_applescript call)
\* completes or is cut off by a timeout and returns a pair to its caller,
\* so that the turn goes on and handle_command returns, also when the
\* osascript process never answers.
C24_EveryBackendCallReturns ==
  (call.runner = "run_applescript" /\ call.pc = "communicate") ~> (call.pc = "returned")

\* ---------------------------------------------------------------- C25

\* C25: run_enhanced_applescript launches the script at most 3 times,
\* whatever the attempts end with, and then returns a pair; it launches it
\* again only after a timeout, and reports a script error (exit code other
\* than 0, such as a slide that does not exist) after that one attempt.
C25_RetriesOnlyTimeouts ==
  call.runner = "run_enhanced_applescript" =>
    /\ call.launches <= 3
    /\ call.attempt < 3
    /\ \A k \in DOMAIN call.outcomes :
         call.outcomes[k] = "error" => (k = 1 /\ call.pc = "returned" /\ call.launches = 1)
    /\ \A k \in DOMAIN call.outcomes :
         (k < Len(call.outcomes) \/ call.pc # "returned") => call.outcomes[k] = "timeout"

\* ---------------------------------------------------------- the classifier

\* a pattern of COMMAND_PATTERNS: the words one after the other, each out of
\* its alternatives ("\b(next|forward|...)\s+(slide|...)\b"), and the
\* confidence.  Russian words are written in Latin letters.
Pattern(action, alternatives, confidence) ==
  [action |-> action, alternatives |-> alternatives, confidence |-> confidence]

COMMAND_PATTERNS ==
  {Pattern("next_slide", <<{"next", "forward", "dalee"}, {"slide", "slaid"}>>, 95),
   Pattern("next_slide", <<{"next", "forward", "dalee"}>>, 85),
   Pattern("previous_slide", <<{"previous", "back", "nazad"}, {"slide", "slaid"}>>, 95),
   Pattern("previous_slide", <<{"previous", "back", "nazad"}>>, 85),
   Pattern("pause", <<{"pause", "stop", "pauza"}>>, 90),
   Pattern("resume", <<{"continue", "resume", "prodolzhit"}>>, 90),
   Pattern("start", <<{"start", "begin", "nachat"}, {"presentation", "pokaz"}>>, 95),
   Pattern("start", <<{"begin", "start"}>>, 80),
   Pattern("end_presentation", <<{"end", "finish", "zakonchit"}, {"presentation", "pokaz"}>>, 95),
   Pattern("end_presentation", <<{"end", "finish", "exit", "quit", "vyhod"}>>, 80),
   Pattern("speak_next_block", <<{"govori", "chitai", "ozvuch", "skazhi"}>>, 90),
   Pattern("repeat_last_block", <<{"povtori", "povtor"}>>, 90),
   Pattern("handle_question", <<{"otvet"}, {"na"}, {"vopros", "zapros"}>>, 95),
   Pattern("handle_question", <<{"poishchi", "naidi", "zagugli", "poisk"}>>, 90),
   Pattern("handle_question", <<{"kak", "pochemu", "zachem", "kogda"}>>, 85),
   Pattern("search_web", <<{"poisk", "naidi", "naiti"}, {"v"}, {"internete", "seti"}>>, 95),
   Pattern("search_web", <<{"posmotri", "prover"}, {"informaciyu", "dannye"}>>, 90),
   Pattern("generate_summary", <<{"rezyume", "rezyumirui", "itogi"}>>, 90),
   Pattern("generate_summary", <<{"sdelai", "sozdai"}, {"rezyume", "otchet", "vyvody"}>>, 95)}

\* re.search(pattern, text): the words of the pattern stand in the text one
\* after the other
Matches(pattern, words) ==
  \E k \in 1..(Len(words) - Len(pattern.alternatives) + 1) :
    \A j \in DOMAIN pattern.alternatives : words[k + j - 1] \in pattern.alternatives[j]

\* the highest confidence among the patterns the text matches, 0 for none
BestConfidence(words) ==
  IF \A p \in COMMAND_PATTERNS : ~Matches(p, words) THEN 0
  ELSE (CHOOSE p \in COMMAND_PATTERNS :
          /\ Matches(p, words)
          /\ \A q \in COMMAND_PATTERNS : Matches(q, words) => q.confidence <= p.confidence
       ).confidence

\* "actions = list(COMMAND_PATTERNS.keys()) + ['need_clarification']"
PromptActions == {p.action : p \in COMMAND_PATTERNS} \cup {"need_clarification"}

\* what a completion call comes back with: a text, as its pieces between
\* the commas, or an exception
Content(pieces) == [kind |-> "content", pieces |-> pieces]
Failure(kind) == [kind |-> kind, pieces |-> <<>>]

ReplyTexts ==
  {<<"next_slide">>, <<"Start">>, <<"status">>, <<"dance">>, <<"unknown">>,
   <<"need_clarification">>, <<"next_slide", " pause">>, <<"start", "dance">>,
   <<"pause", "">>}

\* RateLimitError; APIError or APIConnectionError; a reply without content
\* (AttributeError on None); any other exception
ModelFailures == {"rate_limit", "api_error", "no_content", "other_error"}

ModelReplies == {Content(p) : p \in ReplyTexts} \cup {Failure(k) : k \in ModelFailures}

\* str.lower() and str.strip() on the pieces above
Lower(piece) == CASE piece = "Start" -> "start" [] OTHER -> piece
Strip(piece) == CASE piece = " pause" -> "pause" [] OTHER -> piece

\* an element that keeps the confidence whatever the word is
Intent_KeepsConfidence(word, confidence) ==
  [action |-> IF word \in PromptActions THEN word ELSE "unknown",
   confidence |-> confidence]

\* lines 176-179 and 187-191: the word is an action of the prompt, or it is
\* "unknown" at 0.0
Intent(word, confidence) ==
  IF word \in PromptActions THEN [action |-> word, confidence |-> confidence]
  ELSE [action |-> "unknown", confidence |-> 0]

\* lines 168-191 (confidence 0.85) and 207-229 (0.75)
Interpret(reply, confidence) ==
  IF Len(reply.pieces) > 1
  THEN Multiple([k \in DOMAIN reply.pieces |->
                   Intent(Strip(Lower(reply.pieces[k])), confidence)])
  ELSE Single(Intent(Strip(Lower(reply.pieces[1])), confidence).action,
              Intent(Strip(Lower(reply.pieces[1])), confidence).confidence)

Primary == "gpt-4-1106-preview"
Degraded == "gpt-3.5-turbo"

Classified(requests, result) == [requests |-> requests, result |-> result, raised |-> FALSE]

\* a retry that trusts the degraded model as it trusts the primary one
Retry_AtPrimaryConfidence(fallback) ==
  IF fallback.kind = "content"
  THEN Classified(<<Primary, Degraded>>, Interpret(fallback, 85))
  ELSE Classified(<<Primary, Degraded>>, Single("unknown", 0))

\* lines 193-229: the one further call, to the degraded model; what it
\* raises is caught by the outer except clause (235-237)
Retry(fallback) ==
  IF fallback.kind = "content"
  THEN Classified(<<Primary, Degraded>>, Interpret(fallback, 75))
  ELSE Classified(<<Primary, Degraded>>, Single("unknown", 0))

use_openai_for_intent(primary, fallback) ==
  CASE primary.kind = "content" -> Classified(<<Primary>>, Interpret(primary, 85))
    [] primary.kind = "rate_limit" -> Retry(fallback)
    [] OTHER -> Classified(<<Primary>>, Single("unknown", 0))

\* question_handler.py 78-85
action_mapping(action) ==
  CASE action = "start_presentation" -> "start"
    [] action = "stop" -> "pause"
    [] action = "generate_answer" -> "handle_question"
    [] action = "explain_simpler" -> "speak_next_block"
    [] action = "summarize" -> "generate_summary"
    [] action = "unknown" -> "need_clarification"
    [] OTHER -> action

\* the JSON objects the completion of analyze_text answers with, by their
\* "action" (<<>>: the key is missing), an answer that is no JSON, and an
\* exception
Json(pieces) == [kind |-> "json", pieces |-> pieces]

AnalysisReplies ==
  {Json(<<a>>) : a \in {"next_slide", "stop", "start_presentation", "unknown", "dance"}}
  \cup {Json(<<>>), Failure("unparseable"), Failure("other_error")}

\* question_handler.py 43-112
analyze_text(reply) ==
  IF reply.kind = "json"
  THEN Classified(<<"gpt-4-turbo-preview">>,
                  Single(action_mapping(IF reply.pieces = <<>> THEN "unknown"
                                        ELSE reply.pieces[1]), 90))
  ELSE Classified(<<"gpt-4-turbo-preview">>, Single("need_clarification", 30))

\* the texts classified: the words of the message
MessageTexts ==
  {<<"next", "slide">>, <<"next">>, <<"go", "back">>, <<"begin">>,
   <<"start", "presentation">>, <<"stop">>, <<"hello">>,
   <<"please", "next", "slide", "now">>}

\* use_openai_for_intent(text): what the two models would answer is drawn
UseOpenAI ==
  /\ \E primary \in ModelReplies, fallback \in ModelReplies :
       classify' = [NoClassification EXCEPT
                      !.fn = "use_openai_for_intent",
                      !.primary = primary, !.fallback = fallback,
                      !.requests = use_openai_for_intent(primary, fallback).requests,
                      !.result = use_openai_for_intent(primary, fallback).result,
                      !.raised = use_openai_for_intent(primary, fallback).raised]
  /\ UNCHANGED <<keynote, context, last_spoken_text, turn, spoken, repeated>>
  /\ UNCHANGED <<handling, call, flow, cache>>

\* analyze_text(text)
AnalyzeText ==
  /\ \E reply \in AnalysisReplies :
       classify' = [NoClassification EXCEPT
                      !.fn = "analyze_text", !.primary = reply,
                      !.requests = analyze_text(reply).requests,
                      !.result = analyze_text(reply).result]
  /\ UNCHANGED <<keynote, context, last_spoken_text, turn, spoken, repeated>>
  /\ UNCHANGED <<handling, call, flow, cache>>

\* identify_action(text, current_state)
IdentifyAction ==
  /\ \E words \in MessageTexts, current_state \in PresentationState :
       classify' = [NoClassification EXCEPT
                      !.fn = "identify_action", !.words = words,
                      !.result = identify_action(current_state)]
  /\ UNCHANGED <<keynote, context, last_spoken_text, turn, spoken, repeated>>
  /\ UNCHANGED <<handling, call, flow, cache>>

NextClassifier == UseOpenAI \/ AnalyzeText \/ IdentifyAction

SpecClassifier == Init /\ [][NextClassifier]_vars

\* ---------------------------------------------------------------- C26

\* C26: on a rate-limit error of the primary model use_openai_for_intent
\* makes exactly one further call, to the degraded model, and returns an
\* action recognised in that answer with confidence 0.75; the model is
\* never called more than twice, and a failure of the retry gives unknown
\* at 0.0 and no exception.
C26_OneDegradedRetry ==
  classify.fn = "use_openai_for_intent" =>
    /\ Len(classify.requests) <= 2 /\ ~classify.raised
    /\ classify.primary.kind # "rate_limit" => classify.requests = <<Primary>>
    /\ classify.primary.kind = "rate_limit" =>
         /\ classify.requests = <<Primary, Degraded>>
         /\ classify.fallback = Content(<<"next_slide">>)
              => classify.result = Single("next_slide", 75)
         /\ classify.fallback = Content(<<"Start">>)
              => classify.result = Single("start", 75)
         /\ classify.fallback = Content(<<"next_slide", " pause">>)
              => classify.result = Multiple(<<[action |-> "next_slide", confidence |-> 75],
                                              [action |-> "pause", confidence |-> 75]>>)
         /\ classify.fallback.kind \in ModelFailures
              => classify.result = Single("unknown", 0)
         /\ classify.result.shape = "single" => classify.result.confidence \in {0, 75}

\* the primary model is rate-limited, the degraded one says "Start"
C26_Witness ==
  /\ classify.fn = "use_openai_for_intent"
  /\ classify.primary = Failure("rate_limit")
  /\ classify.fallback = Content(<<"Start">>)
  /\ classify.requests = <<Primary, Degraded>>
  /\ classify.result = Single("start", 75)

\* ---------------------------------------------------------------- C27

\* the intents of a classification result
ResultIntents(result) ==
  IF result.shape = "single"
  THEN {[action |-> result.action, confidence |-> result.confidence]}
  ELSE {result.actions[k] : k \in DOMAIN result.actions}

\* C27: every intent the classifier produces with action unknown has
\* confidence 0.0: the single results, each element of a multi-intent list,
\* what is made of an answer outside the vocabulary or without content, and
\* what is made of a transport error.
C27_UnknownHasNoConfidence ==
  classify.fn \in {"use_openai_for_intent", "analyze_text"} =>
    /\ \A intent \in ResultIntents(classify.result) :
         intent.action = "unknown" => intent.confidence = 0
    /\ ( /\ classify.fn = "use_openai_for_intent"
         /\ classify.primary \in {Content(<<"dance">>), Content(<<"status">>),
                                  Content(<<"unknown">>), Failure("api_error"),
                                  Failure("no_content"), Failure("other_error")} )
       => classify.result = Single("unknown", 0)
    /\ ( /\ classify.fn = "use_openai_for_intent"
         /\ classify.primary = Content(<<"start", "dance">>) )
       => classify.result = Multiple(<<[action |-> "start", confidence |-> 85],
                                       [action |-> "unknown", confidence |-> 0]>>)

\* "start, dance": the second element is unknown at 0.0
C27_Witness ==
  /\ classify.fn = "use_openai_for_intent"
  /\ classify.primary = Content(<<"start", "dance">>)
  /\ Len(classify.result.actions) = 2
  /\ classify.result.actions[2] = [action |-> "unknown", confidence |-> 0]

\* ---------------------------------------------------------------- C28

\* C28: for a text that matches a pattern of COMMAND_PATTERNS of confidence
\* >= 0.85, that being the best match, identify_action returns the
\* pattern's action with that confidence; and no model is asked when the
\* best pattern confidence is >= 0.7.
C28_PatternDecides ==
  classify.fn = "identify_action" =>
    /\ \A p \in COMMAND_PATTERNS :
         ( /\ Matches(p, classify.words) /\ p.confidence >= 85
           /\ p.confidence = BestConfidence(classify.words) )
         => classify.result = Single(p.action, p.confidence)
    /\ BestConfidence(classify.words) >= 70 => classify.requests = <<>>

\* ---------------------------------------------------------------- C30

\* the text of a slide, and the slides whose text contains the query,
\* letter case aside
TextOfSlide(s) == strip(slideText(s))

Containing(content_text) ==
  {s \in 1..NSlides : Contains(lower(TextOfSlide(s)), lower(Chars(content_text)))}

\* the ratio of query length to slide-text length is higher on slide s than
\* on slide t
HigherRatio(content_text, s, t) ==
  Len(Chars(content_text)) * Len(TextOfSlide(t))
    > Len(Chars(content_text)) * Len(TextOfSlide(s))

BestSlide(content_text) ==
  CHOOSE s \in Containing(content_text) :
    \A t \in Containing(content_text) :
      \/ HigherRatio(content_text, s, t)
      \/ ~HigherRatio(content_text, t, s) /\ s <= t

ShowSlideCalls == {i \in EventsOf("script") : turn.calls[i].name = "show_slide"}

\* C30: with the document open and nothing failing, goto_slide_by_content
\* tells Keynote to show a slide if and only if the text of some slide
\* contains the query, letter case aside; the slide shown is the containing
\* one with the highest ratio of query length to text length, the first of
\* them on ties; when no slide contains the query the result is
\* success=false with the query in the message and no slide is shown.
C30_BestContainingSlide ==
  ( /\ turn.op = "goto_slide_by_content" /\ turn.anomaly = Calm
    /\ turn.keynote_before.running /\ turn.keynote_before.doc ) =>
    /\ turn.out.shape # "raised"
    /\ ShowSlideCalls # {} <=> Containing(turn.content_text) # {}
    /\ Containing(turn.content_text) # {} =>
         /\ turn.out.execution_result.success
         /\ keynote.slide = BestSlide(turn.content_text)
    /\ Containing(turn.content_text) = {} =>
         /\ ~turn.out.execution_result.success
         /\ turn.out.execution_result.message
              = "slide_with_text_not_found:" \o turn.content_text

\* ---------------------------------------------------------------- C31

\* C31: the number of sessions the store holds stays within a bound that
\* does not grow with the number of users that ever wrote: with every user
\* of the model having written, the store holds fewer sessions than there
\* are users.
C31_StoreIsBounded == Cardinality(DOMAIN sessions) < Cardinality(Users)

\* ------------------------------------------------- turns side by side

\* the commands of the turns that run side by side
Commands == {"start", "pause", "resume"}

\* a handler task calls handle_command for a message classified as one of
\* Commands with confidence >= 0.5; the task's kind is the command
CommandArrives ==
  /\ \E i \in Messages, user \in Users, action \in Commands :
       /\ tasks[i].pc = "none"
       /\ tasks' = [tasks EXCEPT ![i] =
                      [NoTask EXCEPT !.kind = action, !.user = user, !.pc = "validating"]]
  /\ UNCHANGED <<keynote, context, last_spoken_text, turn, spoken, repeated>>
  /\ UNCHANGED <<sessions, sent, journal, call, classify, flow, cache>>

\* what handle_command returns for the one intent with this result
Outcome(action, res) == TurnResult("single", action, 85, "", TRUE, res, <<>>)

\* command_router.py 479 and 508-524: the refresh, then validate_action; a
\* rejected command is answered with the validator's message
Validated(i, v) ==
  /\ Commit(v.m)
  /\ tasks' = [tasks EXCEPT
                 ![i].pc = IF ~v.valid THEN "done"
                           ELSE IF tasks[i].kind = "start" THEN "invoking"
                           ELSE "asking",
                 ![i].out = Outcome(tasks[i].kind, Result(FALSE, v.message))]

TurnValidates ==
  /\ \E i \in Messages :
       /\ tasks[i].kind \in Commands /\ tasks[i].pc = "validating"
       /\ Validated(i, validate_action(update_state(Machine(Calm)), tasks[i].kind))
  /\ UNCHANGED <<turn, spoken, repeated>>
  /\ UNCHANGED <<sessions, sent, journal, call, classify, flow, cache>>

\* 526-550 for a capability that is no toggle: it runs, and the tracker is
\* refreshed when it succeeded
Finishes(i, r) ==
  /\ Commit(r.m)
  /\ tasks' = [tasks EXCEPT ![i].pc = "done", ![i].out = Outcome(tasks[i].kind, r.ret)]

TurnInvokes ==
  /\ \E i \in Messages :
       /\ tasks[i].kind \in Commands /\ tasks[i].pc = "invoking"
       /\ Finishes(i, RefreshOnSuccess(Invoke(Machine(Calm), tasks[i].kind)))
  /\ UNCHANGED <<turn, spoken, repeated>>
  /\ UNCHANGED <<sessions, sent, journal, call, classify, flow, cache>>

\* pause_presentation, lines 242-265: is Keynote there, and does it play
StatusBeforeToggle(m) ==
  Bind(is_keynote_running(m), LAMBDA r1 :
    IF ~r1.ret THEN [m |-> r1.m, status |-> "not_running"]
    ELSE Bind(run_applescript(r1.m, "playing"), LAMBDA r2 :
           [m |-> r2.m, status |-> IF r2.success THEN r2.result.text ELSE "unknown"]))

\* lines 267-273: the script is chosen by the status read
Asked(i, s) ==
  /\ Commit(s.m)
  /\ tasks' = [tasks EXCEPT
                 ![i].pc = CASE s.status = "playing" -> "pausing"
                             [] s.status = "paused" -> "resuming"
                             [] OTHER -> "done",
                 ![i].out = Outcome(tasks[i].kind,
                                    Result(FALSE, IF s.status = "not_running"
                                                  THEN "keynote_not_running"
                                                  ELSE "cannot_tell_status"))]

TurnAsks ==
  /\ \E i \in Messages :
       /\ tasks[i].kind \in {"pause", "resume"} /\ tasks[i].pc = "asking"
       /\ Asked(i, StatusBeforeToggle(Machine(Calm)))
  /\ UNCHANGED <<turn, spoken, repeated>>
  /\ UNCHANGED <<sessions, sent, journal, call, classify, flow, cache>>

\* lines 275-286, and the refresh of the dispatcher after a success
TurnToggles ==
  /\ \E i \in Messages :
       /\ tasks[i].kind \in {"pause", "resume"} /\ tasks[i].pc \in {"pausing", "resuming"}
       /\ Finishes(i, RefreshOnSuccess(
                        IF tasks[i].pc = "pausing"
                        THEN Toggle(Machine(Calm), "pause", "presentation_paused")
                        ELSE Toggle(Machine(Calm), "resume", "presentation_resumed")))
  /\ UNCHANGED <<turn, spoken, repeated>>
  /\ UNCHANGED <<sessions, sent, journal, call, classify, flow, cache>>

NextTurns ==
  \/ Launch \/ OpenDocument
  \/ CommandArrives \/ TurnValidates \/ TurnInvokes \/ TurnAsks \/ TurnToggles
  \/ Forget

SpecTurns == Init /\ [][NextTurns]_vars

\* ---------------------------------------------------------------- C32

\* C32: a pause command that passed validation never has the resume
\* operation issued, a resume command never the pause operation, whatever
\* other turns run at the same time; and when pause commands alone are in
\* flight and all of them have succeeded, the slideshow is paused.
C32_PauseOnlyPauses ==
  /\ \A i \in Messages :
       /\ tasks[i].kind = "pause" => tasks[i].pc # "resuming"
       /\ tasks[i].kind = "resume" => tasks[i].pc # "pausing"
  /\ ( /\ \E i \in Messages : tasks[i].kind = "pause"
       /\ \A i \in Messages :
            tasks[i].pc # "none" =>
              /\ tasks[i].kind = "pause" /\ tasks[i].pc = "done"
              /\ tasks[i].out.execution_result.success )
     => keynote.mode = "paused"

\* ---------------------------------------------------------------- C33

\* C33: with the host running, a document open and the slideshow stopped, a
\* turn classified as start with confidence >= 0.5, nothing failing, is
\* accepted by the validator and invokes the start capability, whatever the
\* tracker held before; so the slideshow of an open document can always be
\* started through the bot.
C33_StartIsAlwaysOffered ==
  ( /\ SingleTurn /\ turn.anomaly = Calm
    /\ turn.classified.action = "start" /\ turn.classified.confidence >= 50
    /\ HostAndDocumentBefore /\ turn.keynote_before.mode = "stopped" )
    => /\ \E i \in EventsOf("invoke") : turn.calls[i].name = "start"
       /\ keynote.mode = "playing"

\* ---------------------------------------------------------------- C34

\* C34: every action validate_action permits in some state has a capability
\* registered in COMMAND_FUNCTIONS, so a single-intent turn whose action
\* passed validation is never answered with the unknown-command failure.
C34_ValidatedIsRegistered ==
  ( /\ SingleTurn /\ Actionable(turn.classified)
    /\ turn.classified.action \in valid_actions(StateAtValidation) )
  => /\ turn.classified.action \in COMMAND_FUNCTIONS
     /\ turn.out.shape = "single"
     /\ turn.out.execution_result.message # UnknownCommand(turn.classified.action)

\* ---------------------------------------------------------------- C35

\* the scripts of a refresh: they ask and change nothing
StateQueries == {"exists_process", "exists_document", "status"}

\* the states the refreshes of the turn left, in their order
StatesOfTurn == SelectSeq(turn.calls, LAMBDA e : e.kind = "state")

\* C35: a single-intent turn calls at most one capability, the one of its
\* action, and only after the turn's own validate_action found the action
\* in the table entry of the state it had just refreshed; when the action is
\* not valid there, or clarification is asked for, no capability is called,
\* and in every turn without a capability call the scripts run are state
\* queries only.
C35_OneValidatedCall ==
  SingleTurn =>
    /\ Cardinality(EventsOf("invoke")) <= 1
    /\ \A i \in EventsOf("invoke") :
         /\ turn.calls[i].name = turn.classified.action
         /\ Cardinality({k \in EventsOf("update_state") : k < i}) = 2
         /\ i > 2 /\ turn.calls[i - 2].kind = "state"
         /\ turn.classified.action \in valid_actions(turn.calls[i - 2].name)
    /\ turn.out.shape = "need_clarification" => EventsOf("invoke") = {}
    /\ ( /\ Len(StatesOfTurn) >= 2
         /\ turn.classified.action \notin valid_actions(StatesOfTurn[2].name) )
       => EventsOf("invoke") = {}
    /\ EventsOf("invoke") = {} =>
         \A i \in EventsOf("script") : turn.calls[i].name \in StateQueries

\* next_slide while the slideshow plays: validated in PLAYING, called once
C35_Witness ==
  /\ SingleTurn /\ turn.anomaly = Calm
  /\ turn.classified = Single("next_slide", 85)
  /\ turn.keynote_before.mode = "playing" /\ turn.keynote_before.slide = 1
  /\ Cardinality(EventsOf("invoke")) = 1
  /\ StatesOfTurn[2].name = PLAYING
  /\ keynote.slide = 2

\* ---------------------------------------------------------------- C36

\* C36: a goto_slide that fails because the slide number is outside
\* 1..total_slides leaves the playback as it was: a slideshow that was not
\* playing before the call is not playing after it.
C36_FailureLeavesPlayback ==
  ( /\ turn.op = "goto_slide" /\ turn.anomaly = Calm
    /\ turn.slide_number \notin 1..NSlides
    /\ ~turn.out.execution_result.success )
    => keynote.mode = turn.keynote_before.mode

\* ---------------------------------------------------------------- C37

\* C37: when the transcription of a voice message fails (no API key, the
\* conversion fails, the API fails on every attempt, or the transcript is
\* empty) voice_message_handler does not call handle_command: the handler
\* never comes to answer a command result for that message, and what it has
\* sent when it is done is the recognition error.
C37_FailedTranscriptionIsNotACommand ==
  \A i \in Messages :
    (tasks[i].kind = "voice" /\ tasks[i].recognition \in Recognitions \ {"transcript"}) =>
      /\ tasks[i].pc # "answering"
      /\ tasks[i].pc = "done" => sent[i] = <<Reply(<<"recognition_error">>)>>

\* ------------------------------------------------ multi-stage command flows

\* the commands flows are registered for here
FlowCommands == {"feedback", "quiz"}

\* what a stage handler can do when awaited: return a dict (with or without
\* the keys is_complete and next_stage), return something that is not a dict,
\* or raise
HandlerDicts ==
  { [success |-> TRUE],
    [success |-> FALSE],
    [success |-> TRUE, next_stage |-> 0],
    [success |-> TRUE, is_complete |-> TRUE],
    [success |-> FALSE, is_complete |-> TRUE],
    [success |-> TRUE, is_complete |-> FALSE],
    [success |-> FALSE, is_complete |-> FALSE],
    [success |-> TRUE, is_complete |-> FALSE, next_stage |-> 0] }

StageHandlers ==
  { [kind |-> "returns", dict |-> d] : d \in HandlerDicts }
    \cup { [kind |-> "returns_none", dict |-> [success |-> FALSE]],
           [kind |-> "raises", dict |-> [success |-> FALSE]] }

\* COMMAND_FLOWS[command][stage] = handler, the command's dict made on demand
register_flow(flows, command, stage) ==
  [c \in DOMAIN flows \cup {command} |->
     IF c = command
       THEN (IF c \in DOMAIN flows THEN flows[c] ELSE {}) \cup {stage}
       ELSE flows[c]]

UnknownStage ==
  [success |-> FALSE, message |-> "unknown_stage", is_complete |-> TRUE]

ProcessingError ==
  [success |-> FALSE, message |-> "processing_error", is_complete |-> TRUE]

\* a variant that hands the handler's dict back as it came
Completed_AsTheHandlerGaveIt(result, stage) == result

\* lines 51-56: is_complete defaults to False, and a stage that is not the
\* last one names the next stage unless the handler did
Completed(result, stage) ==
  LET marked == IF "is_complete" \in DOMAIN result
                  THEN result
                  ELSE [is_complete |-> FALSE] @@ result
  IN  IF ~marked.is_complete /\ "next_stage" \notin DOMAIN marked
        THEN [next_stage |-> stage + 1] @@ marked
        ELSE marked

\* the body of the try: anything but a dict fails at the first key test
TryStage(stage, handler) ==
  IF handler.kind = "returns"
    THEN [raised |-> FALSE, result |-> Completed(handler.dict, stage)]
    ELSE [raised |-> TRUE, result |-> handler.dict]

execute_flow_stage(flows, command, stage, handler) ==
  IF command \notin DOMAIN flows \/ stage \notin flows[command]
    THEN [raised |-> FALSE, result |-> UnknownStage]
    ELSE LET tried == TryStage(stage, handler)
         IN  IF tried.raised
               THEN [raised |-> FALSE, result |-> ProcessingError]
               ELSE tried

\* whether a handler is registered for the stage of the command
Registered(flows, command, stage) ==
  /\ command \in DOMAIN flows
  /\ stage \in flows[command]

RegisterFlow ==
  \E command \in FlowCommands, stage \in Stages :
    /\ flow' = [flow EXCEPT
         !.COMMAND_FLOWS = register_flow(flow.COMMAND_FLOWS, command, stage)]
    /\ UNCHANGED <<keynote, context, last_spoken_text, turn, spoken, repeated,
                   handling, call, classify, cache>>

ExecuteFlowStage ==
  \E command \in FlowCommands, stage \in Stages, handler \in StageHandlers :
    LET r == execute_flow_stage(flow.COMMAND_FLOWS, command, stage, handler)
    IN  /\ flow' = [flow EXCEPT
              !.last = [ran |-> TRUE, command |-> command, stage |-> stage,
                        registered |->
                          Registered(flow.COMMAND_FLOWS, command, stage),
                        handler |-> handler, result |-> r.result,
                        raised |-> r.raised]]
        /\ UNCHANGED <<keynote, context, last_spoken_text, turn, spoken,
                       repeated, handling, call, classify, cache>>

NextFlows == RegisterFlow \/ ExecuteFlowStage

SpecFlows == Init /\ [][NextFlows]_vars

FailedStage(run) ==
  \/ ~run.registered
  \/ run.handler.kind \in {"returns_none", "raises"}

\* C38: execute_flow_stage never raises and every result carries
\* is_complete; a result whose is_complete is false carries next_stage, which
\* is stage + 1 when the handler named none and the handler's own otherwise;
\* an unregistered command or stage and a failing handler give a final
\* result with success false and is_complete true.
C38_StageResultIsComplete ==
  flow.last.ran =>
    LET run == flow.last
        result == run.result
    IN  /\ ~run.raised
        /\ "is_complete" \in DOMAIN result
        /\ ~result.is_complete =>
             /\ "next_stage" \in DOMAIN result
             /\ result.next_stage =
                  IF "next_stage" \in DOMAIN run.handler.dict
                    THEN run.handler.dict.next_stage
                    ELSE run.stage + 1
        /\ FailedStage(run) =>
             /\ result.success = FALSE
             /\ result.is_complete = TRUE
             /\ "next_stage" \notin DOMAIN result

\* a registered stage past the first whose handler said neither whether the
\* flow is over nor where it goes on
C38_Witness ==
  /\ flow.last.ran
  /\ flow.last.registered
  /\ flow.last.stage = 1
  /\ flow.last.handler = [kind |-> "returns", dict |-> [success |-> TRUE]]
  /\ flow.last.result.is_complete = FALSE
  /\ flow.last.result.next_stage = 2

\* ------------------------------------------ the cached presentation structure

\* what get_presentation_structure can give: the structure of the open
\* document, or {} when the script fails or its output is not JSON
Structures == {"slides_v1", "slides_v2"}
Fetched == Structures \cup {"{}"}

\* line 21-22: nothing cached yet, or cached longer ago than the ttl
Expired(store, current_time) ==
  \/ store.data = "None"
  \/ current_time - store.timestamp > store.ttl

\* a variant that stores whatever the refresh gave
Refreshed_WhateverCame(store, data, current_time) ==
  [store EXCEPT !.data = data, !.timestamp = current_time]

\* lines 27-30: only a non-empty structure is stored, with the time read at
\* the start of the call
Refreshed(store, data, current_time) ==
  IF data # "{}"
    THEN [store EXCEPT !.data = data, !.timestamp = current_time]
    ELSE store

Tick ==
  /\ cache.time < MaxClock
  /\ cache' = [cache EXCEPT !.time = @ + TickSeconds]
  /\ UNCHANGED <<keynote, context, last_spoken_text, turn, spoken, repeated,
                 handling, call, classify, flow>>

\* get_cached_presentation_structure up to its await, or to its return when
\* the cache is still good
BeginRead ==
  \E i \in Readers :
    LET store == cache.store
        current_time == cache.time
        queried == Expired(store, current_time)
    IN  /\ cache.readers[i].pc \in {"idle", "returned"}
        /\ cache' = [cache EXCEPT !.readers[i] =
             [pc |-> IF queried THEN "querying" ELSE "returned",
              current_time |-> current_time, seen |-> store,
              queried |-> queried, data |-> "",
              before |-> store, after |-> store,
              returned |-> IF queried THEN "" ELSE store.data]]
        /\ UNCHANGED <<keynote, context, last_spoken_text, turn, spoken,
                       repeated, handling, call, classify, flow>>

\* get_presentation_structure has answered
FinishRead ==
  \E i \in Readers, data \in Fetched :
    LET reader == cache.readers[i]
        store == Refreshed(cache.store, data, reader.current_time)
    IN  /\ reader.pc = "querying"
        /\ cache' = [cache EXCEPT
             !.store = store,
             !.readers[i] = [reader EXCEPT
                !.pc = "returned", !.data = data, !.before = cache.store,
                !.after = store, !.returned = store.data]]
        /\ UNCHANGED <<keynote, context, last_spoken_text, turn, spoken,
                       repeated, handling, call, classify, flow>>

NextCache == Tick \/ BeginRead \/ FinishRead

SpecCache == Init /\ [][NextCache]_vars

\* the cache as a call found it was empty or older than thirty seconds
FoundOld(reader) ==
  \/ reader.seen.data = "None"
  \/ reader.current_time - reader.seen.timestamp > 30

====
